---- MODULE Spec2Model ----
(***************************************************************************)
(* Verification model of the relational execution core: the sort-merge and *)
(* hash joins of src/src/joining.h, the build-once/probe-many hash_join    *)
(* handle exercised by cpp/tests/join/join_tests.cpp, the hash group-by of *)
(* src/src/groupby/hash/groupby_compute_api.h and the recomposition of     *)
(* compound aggregation requests in                                        *)
(* cpp/src/groupby/hash/aggregation_requests.cpp.                          *)
(*                                                                         *)
(* Arrays are functions over 0..n-1 so that the index arithmetic of the    *)
(* source is kept as written.                                              *)
(***************************************************************************)
EXTENDS Integers, FiniteSets, Sequences, TLC

----------------------------------------------------------------------------
(* Bounds of the model *)

\* largest number of rows of a relation handed to a join
MaxRows == 2
\* join keys range over -1..KeyMax (-1 is the multimap's unused key)
KeyMax == 1

----------------------------------------------------------------------------
(* Program constants *)

\* #define HASH_TBL_OCC 50
HASH_TBL_OCC == 50
\* const int block_size = 128
block_size == 128
\* sizeof(joined_type): two size_type (int) fields
SizeofJoinedType == 8

----------------------------------------------------------------------------
(* State *)

VARIABLES
    a, b,            \* the two key columns handed to the join (0-based arrays)
    HASH_JOIN,       \* whether the build defines HASH_JOIN
    jop,             \* the join entered: "none" until a call is made
    jpc,             \* position of the call: "idle", "build", "probe", "done"
    jstatus,         \* "ok" or "cuda_error" (a failed CUDA_RT_CALL)
    output,          \* the returned mem_t<int>: 2 * npairs decoupled indices
    flip_indices,    \* inner_join_hash's flag after the internal swap
    hash_tbl,        \* concurrent_unordered_multimap slots
    inserted,        \* build threads that completed their insert
    joined,          \* temp buffer of joined_type pairs
    joined_idx,      \* the shared write cursor
    ppos             \* per probe thread: slots of its chain walked, or -1 when done

joinVars == <<a, b, HASH_JOIN, jop, jpc, jstatus, output, flip_indices,
              hash_tbl, inserted, joined, joined_idx, ppos>>

VARIABLES
    left, right,     \* probe table and build table: arrays of composite-key rows
    nulls_equal,     \* whether two nulls in the same key column compare equal
    built,           \* hash_join::create has run
    htbl,            \* the handle's multimap: build row index per slot, -1 when empty
    pstat,           \* per probe: "idle", "running", "done", "logic_error"
    pkind,           \* per probe: "INNER", "LEFT", "FULL"
    pside,           \* per probe: probe_output_side, "LEFT" or "RIGHT"
    pcic,            \* per probe: the columns_in_common it was called with
    pnext,           \* per probe: next probe row to process
    pout             \* per output buffer: pairs <<left index, right index>>

handleVars == <<left, right, nulls_equal, built, htbl, pstat, pkind, pside, pcic,
                pnext, pout>>

VARIABLES
    in_groupby_column,      \* the key column handed to GroupbyHash
    in_aggregation_column,  \* the value column handed to GroupbyHash
    aggregation_op,         \* "MIN", "MAX", "SUM" or "COUNT"
    the_map,                \* concurrent_unordered_map slots <<key, value>>
    gpc,                    \* position of the call: "idle", "call", "build", "built", "returned"
    gerror,                 \* the cudaError_t returned
    wslot,                  \* per build thread: the slot its insert looks at
    wpc                     \* per build thread: "cas", "update" or "done"

VARIABLES
    global_write_index,      \* the write cursor shared by the extraction threads
    out_groupby_column,      \* the result key column
    out_aggregation_column,  \* the result value column
    out_size,                \* *out_size
    epc                      \* per extraction thread (one per slot): "todo" or "done"

extractVars == <<global_write_index, out_groupby_column, out_aggregation_column,
                 out_size, epc>>

gbVars == <<in_groupby_column, in_aggregation_column, aggregation_op, the_map,
            gpc, gerror, wslot, wpc, extractVars>>

VARIABLES
    original_requests,           \* vector of <<column, operator>>
    simple_requests,             \* compound_to_simple(original_requests)
    simple_outputs,              \* one column per simple request
    simple_requests_to_outputs,  \* std::map from simple request to column
    final_value_columns,         \* columns of the table being returned
    freed,                       \* ids of the columns given to gdf_column_free, in order
    apc,                         \* "idle", "call", "loop", "returned", "threw"
    areq,                        \* index of the original request the loop is at
    aerror                       \* message of the failed CUDF_EXPECTS, "" if none

aggVars == <<original_requests, simple_requests, simple_outputs,
             simple_requests_to_outputs, final_value_columns, freed, apc, areq,
             aerror>>

VARIABLES
    mkeys,       \* the key column of the MEDIAN group-by: cells <<value, valid>>
    mvals,       \* its value column: cells <<value, valid>>
    mgroups,     \* the sorted distinct keys whose group is still to be computed
    mout_keys,   \* result key column
    mout_vals,   \* result value column: cells <<quotient, valid>>
    mpc          \* "idle", "call", "groups", "done"

medVars == <<mkeys, mvals, mgroups, mout_keys, mout_vals, mpc>>

VARIABLES
    columns_,             \* LesserRTTI: the type-erased columns, column -> row -> value
    valids_,              \* validity per column and row
    rtti_,                \* the gdf_dtype tag of each column
    asc_desc_flags_,      \* per column "ASC" / "DESC", or the empty array for nullptr
    nulls_are_smallest_,  \* the null policy
    have_nulls,           \* whether the caller asks for the null-aware comparator
    vals_,                \* the target tuple of the filter, one value per column
    d_indx,               \* the output index array of multi_col_filter / multi_col_order_by
    sop,                  \* the function called
    srow1, srow2,         \* the rows handed to a comparison
    sresult,              \* "true", "false", "assert_failed", or "none"
    spc,                  \* "idle", "call", "done"
    new_sz                \* the row count multi_col_filter returns

sqlVars == <<columns_, valids_, rtti_, asc_desc_flags_, nulls_are_smallest_,
             have_nulls, vals_, d_indx, sop, srow1, srow2, sresult, spc, new_sz>>

VARIABLES
    _type,        \* column_view_base: "INT32", "STRING" (compound) or "EMPTY"
    _size,        \* number of elements
    _data,        \* whether the data pointer is non-null
    _null_mask,   \* whether the null mask pointer is non-null
    _null_count,  \* stored null count, UNKNOWN_NULL_COUNT when not known
    _offset,      \* index of the first element
    vpc,          \* "idle", "none" (no view yet), "view", "threw" (constructor threw)
    vthrown,      \* what the last call threw: "none" or "logic_error"
    vcall         \* the last call and its arguments, <<>> before the first

viewVars == <<_type, _size, _data, _null_mask, _null_count, _offset, vpc, vthrown,
              vcall>>

VARIABLES
    row_count,       \* the row count a hash table is sized for
    table_capacity,  \* the capacity computed for it
    cpc              \* "idle", "call", or the function that computed the capacity

capVars == <<row_count, table_capacity, cpc>>

VARIABLES
    bit_mask,           \* the words of the validity mask, each the set of its one-bits
    number_of_records,  \* the record count the mask was created for
    bpc,                \* "idle", "none" (no mask yet) or "mask"
    bcall,              \* the last call and its arguments, <<>> before the first
    bfault              \* whether a word outside the allocation was written

bitVars == <<bit_mask, number_of_records, bpc, bcall, bfault>>

VARIABLES
    d_agg,        \* the column to aggregate
    d_agg_p,      \* d_agg gathered in sorted order
    d_kout,       \* one row index per group
    d_vout,       \* one aggregated value per group
    d_cout,       \* one row count per group
    sorted_flag,  \* the sorted argument: d_indx already holds the sorted order
    stream        \* the stream argument: "NULL" or a stream

avgVars == <<d_agg, d_agg_p, d_kout, d_vout, d_cout, sorted_flag, stream>>

vars == <<joinVars, handleVars, gbVars, aggVars, medVars, sqlVars, viewVars, capVars,
          bitVars, avgVars>>

\* the state outside each subsystem
notJoin == <<handleVars, gbVars, aggVars, medVars, sqlVars, viewVars, capVars, bitVars, avgVars>>
notHandle == <<joinVars, gbVars, aggVars, medVars, sqlVars, viewVars, capVars, bitVars, avgVars>>
notGroupby == <<joinVars, handleVars, aggVars, medVars, sqlVars, viewVars, capVars, bitVars, avgVars>>
notAgg == <<joinVars, handleVars, gbVars, medVars, sqlVars, viewVars, capVars, bitVars, avgVars>>
notMedian == <<joinVars, handleVars, gbVars, aggVars, sqlVars, viewVars, capVars, bitVars, avgVars>>
notSql == <<joinVars, handleVars, gbVars, aggVars, medVars, viewVars, capVars, bitVars, avgVars>>
notView == <<joinVars, handleVars, gbVars, aggVars, medVars, sqlVars, capVars, bitVars, avgVars>>
notCap == <<joinVars, handleVars, gbVars, aggVars, medVars, sqlVars, viewVars, bitVars, avgVars>>
notBit == <<joinVars, handleVars, gbVars, aggVars, medVars, sqlVars, viewVars, capVars, avgVars>>
notSqlAvg == <<joinVars, handleVars, gbVars, aggVars, medVars, viewVars, capVars, bitVars>>

----------------------------------------------------------------------------
(* Helpers on 0-based arrays *)

Keys == (0 - 1)..KeyMax

Count(arr) == Cardinality(DOMAIN arr)

EmptyArr == [i \in {} |-> 0]

Relations == UNION {[0..(n - 1) -> Keys] : n \in 0..MaxRows}

\* the sort-merge path requires its inputs sorted under comp (less_t)
IsSorted(r) == \A i, j \in DOMAIN r : i < j => r[i] <= r[j]

\* a slot of a freshly allocated mem_t that no kernel has written yet
Uninit == 0 - (MaxRows * MaxRows + 7)

RECURSIVE SumTo(_, _)
\* plus_t reduction of arr[0..n-1]
SumTo(arr, n) == IF n = 0 THEN 0 ELSE SumTo(arr, n - 1) + arr[n - 1]

\* exclusive scan of arr (mgpu::transform_scan with plus_t)
ExScan(arr) == [i \in DOMAIN arr |-> SumTo(arr, i)]

\* mgpu::sorted_search<bounds_lower>: first position of hay not less than x
LowerBound(x, hay) == Cardinality({j \in DOMAIN hay : hay[j] < x})

\* mgpu::sorted_search<bounds_upper>: first position of hay greater than x
UpperBound(x, hay) == Cardinality({j \in DOMAIN hay : ~(x < hay[j])})

\* mgpu::transform_lbs: the segment that work item index falls in
LbsSeg(index, segments) ==
    CHOOSE s \in DOMAIN segments :
        /\ segments[s] <= index
        /\ \A t \in DOMAIN segments : segments[t] <= index => t <= s

\* mgpu::transform_lbs: the rank of work item index inside its segment
LbsRank(index, segments) == index - segments[LbsSeg(index, segments)]

----------------------------------------------------------------------------
(* Sort-merge joins, src/src/joining.h *)

compute_join_bounds(aa, bb) ==
    [lower |-> [i \in DOMAIN aa |-> LowerBound(aa[i], bb)],
     upper |-> [i \in DOMAIN aa |-> UpperBound(aa[i], bb)]]

\* scan_join_bounds without the slot allocated for left-only keys
scan_join_bounds_noslot(bounds, a_count, isInner) ==
    LET sizes == [index \in 0..(a_count - 1) |->
                    bounds.upper[index] - bounds.lower[index]]
    IN [scanned_sizes |-> ExScan(sizes), out_join_count |-> SumTo(sizes, a_count)]

scan_join_bounds(bounds, a_count, isInner) ==
    LET sizes == [index \in 0..(a_count - 1) |->
                    IF isInner
                    THEN bounds.upper[index] - bounds.lower[index]
                    ELSE (bounds.upper[index] - bounds.lower[index])
                         + (IF bounds.upper[index] = bounds.lower[index]
                            THEN 1 ELSE 0)]
    IN [scanned_sizes |-> ExScan(sizes), out_join_count |-> SumTo(sizes, a_count)]

\* compute_joined_indices with b_index = lower[seg], the rank dropped
compute_joined_indices_norank(bounds, scanned_sizes, a_count, join_count, isInner, append_count) ==
    LET output_npairs == join_count + append_count
        bidx(index) ==
            LET seg == LbsSeg(index, scanned_sizes)
                lower == bounds.lower[seg]
                upper == bounds.upper[seg]
            IN IF isInner THEN lower
               ELSE IF lower = upper THEN 0 - 1 ELSE lower
    IN [p \in 0..(2 * output_npairs - 1) |->
          IF p < join_count
          THEN LbsSeg(p, scanned_sizes)
          ELSE IF p >= output_npairs /\ p - output_npairs < join_count
          THEN bidx(p - output_npairs)
          ELSE Uninit]

compute_joined_indices(bounds, scanned_sizes, a_count, join_count, isInner, append_count) ==
    LET output_npairs == join_count + append_count
        bidx(index) ==
            LET seg == LbsSeg(index, scanned_sizes)
                rank == LbsRank(index, scanned_sizes)
                lower == bounds.lower[seg]
                upper == bounds.upper[seg]
            IN IF isInner THEN lower + rank
               ELSE IF lower = upper THEN 0 - 1 ELSE lower + rank
    IN [p \in 0..(2 * output_npairs - 1) |->
          IF p < join_count
          THEN LbsSeg(p, scanned_sizes)
          ELSE IF p >= output_npairs /\ p - output_npairs < join_count
          THEN bidx(p - output_npairs)
          ELSE Uninit]

outer_join_count_matches(aa, bb) ==
    LET unmatched == [index \in DOMAIN bb |->
                        IF UpperBound(bb[index], aa) = LowerBound(bb[index], aa)
                        THEN 1 ELSE 0]
    IN [matches |-> ExScan(unmatched), append_count |-> SumTo(unmatched, Count(bb))]

\* outer_join_append_right storing the work item's index instead of its segment
outer_join_append_right_index(output_data, matches, append_count, join_count) ==
    LET output_npairs == join_count + append_count
    IN [p \in DOMAIN output_data |->
          IF p >= join_count /\ p - join_count < append_count
          THEN 0 - 1
          ELSE IF p >= join_count + output_npairs
                  /\ p - join_count - output_npairs < append_count
          THEN p - join_count - output_npairs
          ELSE output_data[p]]

outer_join_append_right(output_data, matches, append_count, join_count) ==
    LET output_npairs == join_count + append_count
    IN [p \in DOMAIN output_data |->
          IF p >= join_count /\ p - join_count < append_count
          THEN 0 - 1
          ELSE IF p >= join_count + output_npairs
                  /\ p - join_count - output_npairs < append_count
          THEN LbsSeg(p - join_count - output_npairs, matches)
          ELSE output_data[p]]

inner_join(aa, bb) ==
    LET bounds == compute_join_bounds(aa, bb)
        scan == scan_join_bounds(bounds, Count(aa), TRUE)
    IN compute_joined_indices(bounds, scan.scanned_sizes, Count(aa),
                              scan.out_join_count, TRUE, 0)

left_join(aa, bb) ==
    LET bounds == compute_join_bounds(aa, bb)
        scan == scan_join_bounds(bounds, Count(aa), FALSE)
    IN compute_joined_indices(bounds, scan.scanned_sizes, Count(aa),
                              scan.out_join_count, FALSE, 0)

outer_join(aa, bb) ==
    LET bounds == compute_join_bounds(aa, bb)
        scan == scan_join_bounds(bounds, Count(aa), FALSE)
        cm == outer_join_count_matches(aa, bb)
        out == compute_joined_indices(bounds, scan.scanned_sizes, Count(aa),
                                      scan.out_join_count, FALSE, cm.append_count)
    IN outer_join_append_right(out, cm.matches, cm.append_count, scan.out_join_count)

----------------------------------------------------------------------------
(* Hash join, src/src/joining.h inner_join_hash under HASH_JOIN.  The      *)
(* multimap and the two kernels live in hash-join/inner_join.cuh.          *)

\* concurrent_unordered_multimap<key_type, size_type, -1, -1>: the reserved
\* (unused key, unused value) pair of an empty slot
UnusedSlot == <<0 - 1, 0 - 1>>

\* 32-bit words are handled as two 16-bit halves <<high, low>>
Half == 2 ^ 16

\* n * 100 in 32-bit arithmetic (modulo 2^32), for 0 <= n < 2^31
mul100_32(n) ==
    LET lo100 == (n % Half) * 100
    IN <<((n \div Half) * 100 + lo100 \div Half) % Half, lo100 % Half>>

\* n + n in 32-bit arithmetic (modulo 2^32), for 0 <= n < 2^31
double_32(n) ==
    LET lo2 == (n % Half) * 2
    IN <<((n \div Half) * 2 + lo2 \div Half) % Half, lo2 % Half>>

\* the unsigned quotient of a 32-bit word by d
udiv_32(w, d) == w[1] * (Half \div d) + (w[1] * (Half % d) + w[2]) \div d

\* a 32-bit word read as an int
as_int(w) == (IF w[1] >= Half \div 2 THEN w[1] - Half ELSE w[1]) * Half + w[2]

\* int division, truncating toward zero
idiv(x, d) == IF x >= 0 THEN x \div d ELSE 0 - ((0 - x) \div d)

\* the folded form a compiler may give a_count * 100 / 50, overflow of int
\* being undefined: a_count * 2
hash_tbl_size_folded(a_count) == as_int(double_32(a_count))

\* size_type hash_tbl_size = (size_type)(a_count * 100 / HASH_TBL_OCC), in int
hash_tbl_size(a_count) == idiv(as_int(mul100_32(a_count)), HASH_TBL_OCC)

\* an output buffer sized for one match per probe row
joined_size_onematch(a_count, b_count) == b_count

\* size_type joined_size = (size_type)(b_count * matching_rate), matching_rate = a_count
joined_size(a_count, b_count) == b_count * a_count

\* cudaMallocManaged rejects a request of zero bytes with cudaErrorInvalidValue
CudaMallocManagedOk(bytes) == bytes > 0

\* a launch with an empty grid fails with cudaErrorInvalidConfiguration
KernelLaunchOk(n) == (n + block_size - 1) \div block_size > 0

\* the hash of a key: the low half-word of its bit pattern, unsigned
HashOf(k) == k % (2 ^ 16)

\* the slot index that lies off slots after the home slot of key k
ChainSlot(tbl, k, off) == ((HashOf(k) % Count(tbl)) + off) % Count(tbl)

\* number of slots from the home slot of k up to the first empty slot
ChainLen(tbl, k) ==
    CHOOSE n \in 0..Count(tbl) :
        /\ \A o \in 0..(n - 1) : tbl[ChainSlot(tbl, k, o)] # UnusedSlot
        /\ n < Count(tbl) => tbl[ChainSlot(tbl, k, n)] = UnusedSlot

\* multimap insert: compare-and-swap the pair into the first empty slot of
\* the key's chain; duplicates of a key take consecutive free slots
multimap_insert(tbl, k, v) ==
    [tbl EXCEPT ![ChainSlot(tbl, k, ChainLen(tbl, k))] = <<k, v>>]

\* the relation the table is built on and the one that probes it
BuildSide == IF flip_indices THEN b ELSE a
ProbeSide == IF flip_indices THEN a ELSE b

\* offsets >= from in k's chain whose slot holds key k
ChainMatches(tbl, k, from) ==
    {o \in from..(ChainLen(tbl, k) - 1) : tbl[ChainSlot(tbl, k, o)][1] = k}

Min(S) == CHOOSE x \in S : \A y \in S : x <= y

\* the decoupling with flip_indices ignored
decouple_noflip(jn, output_npairs, flip) ==
    [p \in 0..(2 * output_npairs - 1) |->
        IF p < output_npairs THEN jn[p][1] ELSE jn[p - output_npairs][2]]

\* lines 226-233: decouple the pairs, flipping them back after a swap
decouple(jn, output_npairs, flip) ==
    [p \in 0..(2 * output_npairs - 1) |->
        IF p < output_npairs
        THEN (IF flip THEN jn[p][2] ELSE jn[p][1])
        ELSE (IF flip THEN jn[p - output_npairs][1] ELSE jn[p - output_npairs][2])]

----------------------------------------------------------------------------
(* Join actions *)

JoinInit ==
    /\ a \in Relations
    /\ b \in Relations
    /\ HASH_JOIN \in BOOLEAN
    /\ jop = "none"
    /\ jpc = "idle"
    /\ jstatus = "ok"
    /\ output = EmptyArr
    /\ flip_indices = FALSE
    /\ hash_tbl = EmptyArr
    /\ inserted = {}
    /\ joined = EmptyArr
    /\ joined_idx = 0
    /\ ppos = EmptyArr

Return(op, out, status) ==
    /\ jop' = op
    /\ jpc' = "done"
    /\ jstatus' = status
    /\ output' = out

NoHashState == UNCHANGED <<flip_indices, hash_tbl, inserted, joined, joined_idx, ppos>>

CallInnerJoin ==
    /\ jpc = "idle"
    /\ IsSorted(a) /\ IsSorted(b)
    /\ Return("inner_join", inner_join(a, b), "ok")
    /\ NoHashState
    /\ UNCHANGED <<a, b, HASH_JOIN>>
    /\ UNCHANGED notJoin

CallLeftJoin ==
    /\ jpc = "idle"
    /\ IsSorted(a) /\ IsSorted(b)
    /\ Return("left_join", left_join(a, b), "ok")
    /\ NoHashState
    /\ UNCHANGED <<a, b, HASH_JOIN>>
    /\ UNCHANGED notJoin

CallOuterJoin ==
    /\ jpc = "idle"
    /\ IsSorted(a) /\ IsSorted(b)
    /\ Return("outer_join", outer_join(a, b), "ok")
    /\ NoHashState
    /\ UNCHANGED <<a, b, HASH_JOIN>>
    /\ UNCHANGED notJoin

\* inner_join_hash without HASH_JOIN: the #else branch, lines 235-240
CallInnerJoinHashSorted ==
    /\ jpc = "idle"
    /\ ~HASH_JOIN
    /\ IsSorted(a) /\ IsSorted(b)
    /\ Return("inner_join_hash", inner_join(a, b), "ok")
    /\ NoHashState
    /\ UNCHANGED <<a, b, HASH_JOIN>>
    /\ UNCHANGED notJoin

\* inner_join_hash with HASH_JOIN, lines 192-217: swap, allocate, launch the build
CallInnerJoinHash ==
    /\ jpc = "idle"
    /\ HASH_JOIN
    /\ LET flip == Count(a) > Count(b)
           a_count == IF flip THEN Count(b) ELSE Count(a)
           b_count == IF flip THEN Count(a) ELSE Count(b)
           size == joined_size(a_count, b_count)
       IN /\ flip_indices' = flip
          /\ IF /\ CudaMallocManagedOk(SizeofJoinedType * size)
                /\ KernelLaunchOk(a_count)
             THEN /\ jop' = "inner_join_hash"
                  /\ jpc' = "build"
                  /\ joined' = [i \in 0..(size - 1) |-> <<Uninit, Uninit>>]
                  /\ hash_tbl' = [s \in 0..(hash_tbl_size(a_count) - 1) |-> UnusedSlot]
                  /\ UNCHANGED <<jstatus, output>>
             ELSE /\ Return("inner_join_hash", EmptyArr, "cuda_error")
                  /\ UNCHANGED <<joined, hash_tbl>>
    /\ joined_idx' = 0
    /\ inserted' = {}
    /\ UNCHANGED <<a, b, HASH_JOIN, ppos>>
    /\ UNCHANGED notJoin

\* build_hash_tbl: thread i inserts (a[i], i)
BuildInsert(i) ==
    /\ jpc = "build"
    /\ i \in DOMAIN BuildSide \ inserted
    /\ hash_tbl' = multimap_insert(hash_tbl, BuildSide[i], i)
    /\ inserted' = inserted \cup {i}
    /\ UNCHANGED <<a, b, HASH_JOIN, jop, jpc, jstatus, output, flip_indices,
                   joined, joined_idx, ppos>>
    /\ UNCHANGED notJoin

\* lines 219-222: the probe kernel is launched on the same stream, after the build
LaunchProbe ==
    /\ jpc = "build"
    /\ inserted = DOMAIN BuildSide
    /\ IF KernelLaunchOk(Count(ProbeSide))
       THEN /\ jpc' = "probe"
            /\ ppos' = [j \in DOMAIN ProbeSide |-> 0]
            /\ UNCHANGED <<jop, jstatus, output>>
       ELSE /\ Return(jop, EmptyArr, "cuda_error")
            /\ UNCHANGED ppos
    /\ UNCHANGED <<a, b, HASH_JOIN, flip_indices, hash_tbl, inserted, joined, joined_idx>>
    /\ UNCHANGED notJoin

\* probe_hash_tbl: thread j walks the chain of b[j]; each confirmed match
\* claims the next slot of joined through the shared cursor
ProbeStep(j) ==
    /\ jpc = "probe"
    /\ j \in DOMAIN ppos
    /\ ppos[j] >= 0
    /\ LET found == ChainMatches(hash_tbl, ProbeSide[j], ppos[j])
       IN IF found = {}
          THEN /\ ppos' = [ppos EXCEPT ![j] = 0 - 1]
               /\ UNCHANGED <<joined, joined_idx, jstatus>>
          ELSE LET o == Min(found)
                   s == hash_tbl[ChainSlot(hash_tbl, ProbeSide[j], o)]
               IN /\ ppos' = [ppos EXCEPT ![j] = o + 1]
                  /\ joined_idx' = joined_idx + 1
                  /\ IF joined_idx \in DOMAIN joined
                     THEN /\ joined' = [joined EXCEPT ![joined_idx] = <<s[2], j>>]
                          /\ UNCHANGED jstatus
                     ELSE /\ jstatus' = "fault"
                          /\ UNCHANGED joined
    /\ UNCHANGED <<a, b, HASH_JOIN, jop, jpc, output, flip_indices, hash_tbl, inserted>>
    /\ UNCHANGED notJoin

\* lines 223-233: synchronize, read the cursor, decouple the pairs
FinishInnerJoinHash ==
    /\ jpc = "probe"
    /\ \A j \in DOMAIN ppos : ppos[j] < 0
    /\ jpc' = "done"
    /\ output' = IF jstatus = "ok" THEN decouple(joined, joined_idx, flip_indices)
                 ELSE EmptyArr
    /\ UNCHANGED <<a, b, HASH_JOIN, jop, jstatus, flip_indices, hash_tbl, inserted,
                   joined, joined_idx, ppos>>
    /\ UNCHANGED notJoin

JoinNext ==
    \/ CallInnerJoin
    \/ CallLeftJoin
    \/ CallOuterJoin
    \/ CallInnerJoinHashSorted
    \/ CallInnerJoinHash
    \/ \E i \in 0..(MaxRows - 1) : BuildInsert(i)
    \/ LaunchProbe
    \/ \E j \in 0..(MaxRows - 1) : ProbeStep(j)
    \/ FinishInnerJoinHash

AvgIdle ==
    /\ d_agg = EmptyArr
    /\ d_agg_p = EmptyArr
    /\ d_kout = EmptyArr
    /\ d_vout = EmptyArr
    /\ d_cout = EmptyArr
    /\ sorted_flag = FALSE
    /\ stream = "NULL"

BitIdle ==
    /\ bit_mask = EmptyArr
    /\ number_of_records = 0
    /\ bpc = "idle"
    /\ bcall = <<>>
    /\ bfault = FALSE

CapIdle ==
    /\ row_count = 0
    /\ table_capacity = 0
    /\ cpc = "idle"

ViewIdle ==
    /\ _type = "none"
    /\ _size = 0
    /\ _data = FALSE
    /\ _null_mask = FALSE
    /\ _null_count = 0
    /\ _offset = 0
    /\ vpc = "idle"
    /\ vthrown = "none"
    /\ vcall = <<>>

SqlIdle ==
    /\ columns_ = EmptyArr
    /\ valids_ = EmptyArr
    /\ rtti_ = EmptyArr
    /\ asc_desc_flags_ = EmptyArr
    /\ nulls_are_smallest_ = FALSE
    /\ have_nulls = FALSE
    /\ vals_ = EmptyArr
    /\ d_indx = EmptyArr
    /\ sop = "none"
    /\ srow1 = 0
    /\ srow2 = 0
    /\ sresult = "none"
    /\ spc = "idle"
    /\ new_sz = 0

MedianIdle ==
    /\ mkeys = EmptyArr
    /\ mvals = EmptyArr
    /\ mgroups = <<>>
    /\ mout_keys = <<>>
    /\ mout_vals = <<>>
    /\ mpc = "idle"

GroupbyIdle ==
    /\ in_groupby_column = EmptyArr
    /\ in_aggregation_column = EmptyArr
    /\ aggregation_op = "SUM"
    /\ the_map = EmptyArr
    /\ gpc = "idle"
    /\ gerror = "cudaSuccess"
    /\ wslot = EmptyArr
    /\ wpc = EmptyArr
    /\ global_write_index = 0
    /\ out_groupby_column = EmptyArr
    /\ out_aggregation_column = EmptyArr
    /\ out_size = 0
    /\ epc = EmptyArr

AggIdle ==
    /\ original_requests = <<>>
    /\ simple_requests = <<>>
    /\ simple_outputs = <<>>
    /\ simple_requests_to_outputs = <<>>
    /\ final_value_columns = <<>>
    /\ freed = <<>>
    /\ apc = "idle"
    /\ areq = 1
    /\ aerror = ""

HandleIdle ==
    /\ left = EmptyArr
    /\ right = EmptyArr
    /\ nulls_equal = TRUE
    /\ built = FALSE
    /\ htbl = EmptyArr
    /\ pstat = EmptyArr
    /\ pkind = EmptyArr
    /\ pside = EmptyArr
    /\ pcic = EmptyArr
    /\ pnext = EmptyArr
    /\ pout = EmptyArr

OthersIdle == MedianIdle /\ SqlIdle /\ ViewIdle /\ CapIdle /\ BitIdle /\ AvgIdle

InitJoin == JoinInit /\ HandleIdle /\ GroupbyIdle /\ AggIdle /\ OthersIdle

SpecJoin == InitJoin /\ [][JoinNext]_vars

----------------------------------------------------------------------------
(* The build-once/probe-many handle: cudf::hash_join::create, inner_join,  *)
(* left_join and full_join as driven by build_once_probe_parallel in       *)
(* cpp/tests/join/join_tests.cpp.                                          *)

\* rows per table
MaxHRows == 2
\* valid key values range over 0..ValMax
ValMax == 1
\* probes run concurrently on one handle
NProbes == 2

\* number of key columns: left_on = right_on = {0, 1} as in the tests
NKeyCols == 2

\* a cell is <<stored value, valid>>; a null cell keeps a stored value
Cells == ((0..ValMax) \X {TRUE}) \cup {<<0, FALSE>>}

HRows == [0..(NKeyCols - 1) -> Cells]

HTables == UNION {[0..(n - 1) -> HRows] : n \in 0..MaxHRows}

\* the tables none of whose key cells is null
ValidTables == {t \in HTables : \A i \in DOMAIN t : \A c \in DOMAIN t[i] : t[i][c][2]}

Probes == 0..(NProbes - 1)

left_on == [c \in 0..(NKeyCols - 1) |-> c]
right_on == [c \in 0..(NKeyCols - 1) |-> c]

\* the columns_in_common lists the callers pass
CommonChoices == {{<<0, 0>>, <<1, 1>>}, {<<0, 1>>, <<1, 0>>}}

\* the check looking at the left column index of a shared pair only
ValidCommon_leftonly(cic) ==
    \A p \in cic : \E i \in DOMAIN left_on : left_on[i] = p[1]

\* every shared pair must pair a left key column with the right key column
\* it is joined with
ValidCommon(cic) ==
    \A p \in cic : \E i \in DOMAIN left_on : left_on[i] = p[1] /\ right_on[i] = p[2]

\* the comparison of the stored values, validity ignored
CellEqual_ignorevalid(x, y) == x[1] = y[1]

\* equality of one key column of two rows
CellEqual(x, y) ==
    IF x[2] /\ y[2] THEN x[1] = y[1]
    ELSE IF ~x[2] /\ ~y[2] THEN nulls_equal
    ELSE FALSE

\* equality of two rows on the composite key: every key column must match
RowsEqual(r, q) == \A c \in 0..(NKeyCols - 1) : CellEqual(r[c], q[c])

\* row hash: the valid key values combined; a null contributes nothing
RowHash(r) == SumTo([c \in 0..(NKeyCols - 1) |-> IF r[c][2] THEN r[c][1] + 1 ELSE 0], NKeyCols)

HSlot(tbl, r, off) == ((RowHash(r) % Count(tbl)) + off) % Count(tbl)

HChainLen(tbl, r) ==
    CHOOSE n \in 0..Count(tbl) :
        /\ \A o \in 0..(n - 1) : tbl[HSlot(tbl, r, o)] # 0 - 1
        /\ n < Count(tbl) => tbl[HSlot(tbl, r, n)] = 0 - 1

RECURSIVE HBuild(_, _, _)
\* insert build rows 0..n-1, each into the first empty slot of its chain
HBuild(tbl, rows, n) ==
    IF n = 0 THEN tbl
    ELSE LET t == HBuild(tbl, rows, n - 1)
         IN [t EXCEPT ![HSlot(t, rows[n - 1], HChainLen(t, rows[n - 1]))] = n - 1]

\* build row indices that probe row r matches, in chain order
RECURSIVE HChainFrom(_, _, _)
HChainFrom(tbl, r, off) ==
    IF off >= HChainLen(tbl, r) THEN <<>>
    ELSE LET j == tbl[HSlot(tbl, r, off)]
         IN (IF RowsEqual(right[j], r) THEN <<j>> ELSE <<>>)
            \o HChainFrom(tbl, r, off + 1)

HMatches(tbl, r) == IF Count(tbl) = 0 THEN <<>> ELSE HChainFrom(tbl, r, 0)

\* the output buffer probe p appends to: its own
OutBuf_shared(p) == 0

OutBuf(p) == p

\* a pair as the caller sees it: for probe_output_side RIGHT the probe
\* table's columns come second
Oriented(p, probe_idx, build_idx) ==
    IF pside[p] = "RIGHT" THEN <<build_idx, probe_idx>> ELSE <<probe_idx, build_idx>>

\* the pairs probe row i contributes
RowPairs(p, i) ==
    LET ms == HMatches(htbl, left[i])
    IN IF Len(ms) = 0
       THEN (IF pkind[p] = "INNER" THEN <<>> ELSE <<Oriented(p, i, 0 - 1)>>)
       ELSE [k \in 1..Len(ms) |-> Oriented(p, i, ms[k])]

\* tables drawn from tables; the probe threads in active will be started
HandleInit(tables, active) ==
    /\ left \in tables
    /\ right \in tables
    /\ nulls_equal \in BOOLEAN
    /\ built = FALSE
    /\ htbl = EmptyArr
    /\ pstat = [p \in Probes |-> IF p \in active THEN "idle" ELSE "unused"]
    /\ pkind = [p \in Probes |-> "INNER"]
    /\ pside = [p \in Probes |-> "LEFT"]
    /\ pcic = [p \in Probes |-> {}]
    /\ pnext = [p \in Probes |-> 0]
    /\ pout = [p \in Probes |-> <<>>]

\* hash_join::create(right, right_on)
Create ==
    /\ ~built
    /\ built' = TRUE
    /\ htbl' = HBuild([s \in 0..(2 * Count(right) - 1) |-> 0 - 1], right, Count(right))
    /\ UNCHANGED <<left, right, nulls_equal, pstat, pkind, pside, pcic, pnext, pout>>
    /\ UNCHANGED notHandle

\* hash_join::inner_join / left_join / full_join entered by probe thread p
StartProbe(p, kind, side, cic) ==
    /\ built
    /\ pstat[p] = "idle"
    /\ kind # "INNER" => side = "LEFT"
    /\ pkind' = [pkind EXCEPT ![p] = kind]
    /\ pside' = [pside EXCEPT ![p] = side]
    /\ pcic' = [pcic EXCEPT ![p] = cic]
    /\ pstat' = [pstat EXCEPT ![p] = IF ValidCommon(cic) THEN "running" ELSE "logic_error"]
    /\ UNCHANGED <<left, right, nulls_equal, built, htbl, pnext, pout>>
    /\ UNCHANGED notHandle

\* the probe of one row of the probe table
ProbeRow(p) ==
    /\ pstat[p] = "running"
    /\ pnext[p] < Count(left)
    /\ pout' = [pout EXCEPT ![OutBuf(p)] = @ \o RowPairs(p, pnext[p])]
    /\ pnext' = [pnext EXCEPT ![p] = @ + 1]
    /\ UNCHANGED <<left, right, nulls_equal, built, htbl, pstat, pkind, pside, pcic>>
    /\ UNCHANGED notHandle

\* build rows that no pair of probe p's result names
RECURSIVE Complement(_, _)
Complement(out, n) ==
    IF n = 0 THEN <<>>
    ELSE Complement(out, n - 1)
         \o (IF \E k \in 1..Len(out) : out[k][2] = n - 1 THEN <<>> ELSE <<<<0 - 1, n - 1>>>>)

\* the probe returns; a full join first appends the unmatched build rows
FinishProbe(p) ==
    /\ pstat[p] = "running"
    /\ pnext[p] = Count(left)
    /\ pout' = IF pkind[p] = "FULL"
               THEN [pout EXCEPT ![OutBuf(p)] = @ \o Complement(@, Count(right))]
               ELSE pout
    /\ pstat' = [pstat EXCEPT ![p] = "done"]
    /\ UNCHANGED <<left, right, nulls_equal, built, htbl, pkind, pside, pcic, pnext>>
    /\ UNCHANGED notHandle

HandleNext ==
    \/ Create
    \/ \E p \in Probes, kind \in {"INNER", "LEFT", "FULL"}, side \in {"LEFT", "RIGHT"},
          cic \in CommonChoices : StartProbe(p, kind, side, cic)
    \/ \E p \in Probes : ProbeRow(p)
    \/ \E p \in Probes : FinishProbe(p)

JoinIdle ==
    /\ a = EmptyArr
    /\ b = EmptyArr
    /\ HASH_JOIN = FALSE
    /\ jop = "none"
    /\ jpc = "idle"
    /\ jstatus = "ok"
    /\ output = EmptyArr
    /\ flip_indices = FALSE
    /\ hash_tbl = EmptyArr
    /\ inserted = {}
    /\ joined = EmptyArr
    /\ joined_idx = 0
    /\ ppos = EmptyArr

\* many probes of one handle, on tables without nulls
InitHandle == HandleInit(ValidTables, Probes) /\ JoinIdle /\ GroupbyIdle /\ AggIdle /\ OthersIdle

SpecHandle == InitHandle /\ [][HandleNext]_vars

\* one probe of a handle, on tables whose key columns may hold nulls
InitNullKeys == HandleInit(HTables, {0}) /\ JoinIdle /\ GroupbyIdle /\ AggIdle /\ OthersIdle

SpecNullKeys == InitNullKeys /\ [][HandleNext]_vars


----------------------------------------------------------------------------
(* Hash group-by: src/src/groupby/hash/groupby_compute_api.h *)

\* largest in_column_size handed to GroupbyHash
MaxGRows == 2
\* std::numeric_limits<groupby_type>::max() of the key type of the model
GroupbyTypeMax == 7
\* std::numeric_limits<aggregation_type>::max() of the value type of the model
AggTypeMax == 2

\* constexpr unsigned int DEFAULT_HASH_TABLE_OCCUPANCY{50}
DEFAULT_HASH_TABLE_OCCUPANCY == 50

GroupbyKeys == 0..GroupbyTypeMax
AggValues == 0..AggTypeMax
GroupbyOps == {"MIN", "MAX", "SUM", "COUNT"}

\* the third template argument of map_type: the key of an empty slot
unused_key == GroupbyTypeMax

\* const size_type hash_table_size = in_column_size * 100 / occupancy, in
\* unsigned int as the occupancy is an unsigned int
hash_table_size(in_column_size) ==
    udiv_32(mul100_32(in_column_size), DEFAULT_HASH_TABLE_OCCUPANCY)

\* the binary functor that combines two partial results of an operator
corresponding_functor(op) ==
    CASE op = "MIN" -> "DeviceMin"
      [] op = "MAX" -> "DeviceMax"
      [] op = "SUM" -> "DeviceSum"
      [] op = "COUNT" -> "DeviceSum"

\* aggregation_operation::IDENTITY of the functor
IDENTITY(op) ==
    CASE corresponding_functor(op) = "DeviceMin" -> AggTypeMax
      [] corresponding_functor(op) = "DeviceMax" -> 0
      [] corresponding_functor(op) = "DeviceSum" -> 0

\* the functor applied to the stored value and a new contribution
Combine(op, old, new) ==
    CASE corresponding_functor(op) = "DeviceMin" -> (IF new < old THEN new ELSE old)
      [] corresponding_functor(op) = "DeviceMax" -> (IF new > old THEN new ELSE old)
      [] corresponding_functor(op) = "DeviceSum" -> old + new

\* what a row adds to its group: its value, or one for COUNT
Contribution(op, v) == IF op = "COUNT" THEN 1 ELSE v

\* the hash of a key, reduced to a slot by the map
GroupbyHashOf(k) == k % (2 ^ 16)

GroupbyInit ==
    /\ \E n \in 0..MaxGRows :
          /\ in_groupby_column \in [0..(n - 1) -> GroupbyKeys]
          /\ in_aggregation_column \in [0..(n - 1) -> AggValues]
    /\ aggregation_op \in GroupbyOps
    /\ the_map = EmptyArr
    /\ gpc = "call"
    /\ gerror = "cudaSuccess"
    /\ wslot = EmptyArr
    /\ wpc = EmptyArr
    /\ global_write_index = 0
    /\ out_groupby_column = [k \in DOMAIN in_groupby_column |-> Uninit]
    /\ out_aggregation_column = [k \in DOMAIN in_groupby_column |-> Uninit]
    /\ out_size = 0
    /\ epc = EmptyArr

\* if(in_column_size <= 0) return cudaErrorNotPermitted
RejectInput ==
    /\ gpc = "call"
    /\ Count(in_groupby_column) <= 0
    /\ gerror' = "cudaErrorNotPermitted"
    /\ gpc' = "returned"
    /\ UNCHANGED <<in_groupby_column, in_aggregation_column, aggregation_op,
                   the_map, wslot, wpc>>
    /\ UNCHANGED extractVars
    /\ UNCHANGED notGroupby

\* the map is created with every slot <<unused_key, IDENTITY>> and the
\* build kernel is launched with one thread per input row
LaunchBuild ==
    /\ gpc = "call"
    /\ Count(in_groupby_column) > 0
    /\ LET size == hash_table_size(Count(in_groupby_column))
       IN /\ the_map' = [s \in 0..(size - 1) |->
                            <<unused_key, IDENTITY(aggregation_op)>>]
          /\ wslot' = [i \in DOMAIN in_groupby_column |->
                          GroupbyHashOf(in_groupby_column[i]) % size]
    /\ wpc' = [i \in DOMAIN in_groupby_column |-> "cas"]
    /\ gpc' = "build"
    /\ UNCHANGED <<in_groupby_column, in_aggregation_column, aggregation_op, gerror>>
    /\ UNCHANGED extractVars
    /\ UNCHANGED notGroupby

\* the insert of thread i: atomicCAS(&slot.key, unused_key, key); the slot
\* is the thread's if the old key was unused_key or its own key
InsertCAS(i) ==
    /\ gpc = "build"
    /\ i \in DOMAIN wpc
    /\ wpc[i] = "cas"
    /\ LET s == wslot[i]
           insert_key == in_groupby_column[i]
           old_key == the_map[s][1]
       IN /\ the_map' = IF old_key = unused_key
                        THEN [the_map EXCEPT ![s] = <<insert_key, the_map[s][2]>>]
                        ELSE the_map
          /\ IF old_key = unused_key \/ old_key = insert_key
             THEN wpc' = [wpc EXCEPT ![i] = "update"] /\ UNCHANGED wslot
             ELSE wslot' = [wslot EXCEPT ![i] = (s + 1) % Count(the_map)]
                  /\ UNCHANGED wpc
    /\ UNCHANGED <<in_groupby_column, in_aggregation_column, aggregation_op,
                   gpc, gerror>>
    /\ UNCHANGED extractVars
    /\ UNCHANGED notGroupby

\* the insert of thread i: the atomic aggregation into the slot's value
InsertUpdate(i) ==
    /\ gpc = "build"
    /\ i \in DOMAIN wpc
    /\ wpc[i] = "update"
    /\ LET s == wslot[i]
       IN the_map' = [the_map EXCEPT ![s] =
              <<the_map[s][1],
                Combine(aggregation_op, the_map[s][2],
                        Contribution(aggregation_op, in_aggregation_column[i]))>>]
    /\ wpc' = [wpc EXCEPT ![i] = "done"]
    /\ UNCHANGED <<in_groupby_column, in_aggregation_column, aggregation_op,
                   gpc, gerror, wslot>>
    /\ UNCHANGED extractVars
    /\ UNCHANGED notGroupby

\* the build kernel is not waited for: the host goes on at once
BuildSync_nowait ==
    /\ gpc = "build"
    /\ gpc' = "built"
    /\ UNCHANGED <<in_groupby_column, in_aggregation_column, aggregation_op,
                   the_map, gerror, wslot, wpc>>
    /\ UNCHANGED extractVars
    /\ UNCHANGED notGroupby

\* error = cudaDeviceSynchronize() after the build kernel
BuildSync ==
    /\ gpc = "build"
    /\ \A i \in DOMAIN wpc : wpc[i] = "done"
    /\ gpc' = "built"
    /\ UNCHANGED <<in_groupby_column, in_aggregation_column, aggregation_op,
                   the_map, gerror, wslot, wpc>>
    /\ UNCHANGED extractVars
    /\ UNCHANGED notGroupby

BuildInputs == <<in_groupby_column, in_aggregation_column, aggregation_op,
                 the_map, wslot, wpc>>

\* *global_write_index = 0, cudaDeviceSynchronize(), and the launch of
\* extract_groupby_result with one thread per slot of the map
LaunchExtract ==
    /\ gpc = "built"
    /\ global_write_index' = 0
    /\ epc' = [s \in DOMAIN the_map |-> "todo"]
    /\ gpc' = "extract"
    /\ UNCHANGED <<BuildInputs, gerror, out_groupby_column, out_aggregation_column,
                   out_size>>
    /\ UNCHANGED notGroupby

\* the thread of slot s: a slot whose key is not the unused key takes the
\* next position with atomicAdd(global_write_index, 1) and stores its key
\* and value there; an unused slot is skipped
ExtractSlot(s) ==
    /\ gpc = "extract"
    /\ s \in DOMAIN epc
    /\ epc[s] = "todo"
    /\ IF the_map[s][1] # unused_key
       THEN /\ out_groupby_column' =
                  [out_groupby_column EXCEPT ![global_write_index] = the_map[s][1]]
            /\ out_aggregation_column' =
                  [out_aggregation_column EXCEPT ![global_write_index] = the_map[s][2]]
            /\ global_write_index' = global_write_index + 1
       ELSE UNCHANGED <<out_groupby_column, out_aggregation_column, global_write_index>>
    /\ epc' = [epc EXCEPT ![s] = "done"]
    /\ UNCHANGED <<BuildInputs, gpc, gerror, out_size>>
    /\ UNCHANGED notGroupby

\* cudaDeviceSynchronize() after the extraction kernel, then
\* *out_size = *global_write_index; return error
ExtractSync ==
    /\ gpc = "extract"
    /\ \A s \in DOMAIN epc : epc[s] = "done"
    /\ out_size' = global_write_index
    /\ gpc' = "returned"
    /\ UNCHANGED <<BuildInputs, gerror, global_write_index, out_groupby_column,
                   out_aggregation_column, epc>>
    /\ UNCHANGED notGroupby

GroupbyNext ==
    \/ RejectInput
    \/ LaunchBuild
    \/ \E i \in 0..(MaxGRows - 1) : InsertCAS(i)
    \/ \E i \in 0..(MaxGRows - 1) : InsertUpdate(i)
    \/ BuildSync
    \/ LaunchExtract
    \/ \E s \in 0..(hash_table_size(MaxGRows) - 1) : ExtractSlot(s)
    \/ ExtractSync

InitGroupby == GroupbyInit /\ JoinIdle /\ HandleIdle /\ AggIdle /\ OthersIdle

SpecGroupby == InitGroupby /\ [][GroupbyNext]_vars

----------------------------------------------------------------------------
(* Aggregation requests: cpp/src/groupby/hash/aggregation_requests.cpp *)

\* longest list of original requests
MaxReqs == 3

ValueCols == {0, 1}
SimpleOps == {"SUM", "MIN", "MAX", "COUNT"}
AggRequests == ValueCols \X (SimpleOps \cup {"AVG"})

\* position of an operator in the operators enum, the order of std::set
OpRank(op) ==
    CASE op = "SUM" -> 0 [] op = "MIN" -> 1 [] op = "MAX" -> 2
      [] op = "COUNT" -> 3 [] op = "AVG" -> 4

\* the rows of each of the two groups of a value column
GroupedRows == { << <<2>>, <<1, 2>> >>, << <<1, 1, 2>>, <<0, 1>> >> }

\* the orders in which the unordered_map may hand out the columns
ColOrders == { <<0, 1>>, <<1, 0>> }

RECURSIVE GCD(_, _)
GCD(x, y) == IF y = 0 THEN x ELSE GCD(y, x % y)

\* the quotient x / y as a fraction in lowest terms
Quotient(x, y) ==
    IF x = 0 THEN <<0, 1>> ELSE <<x \div GCD(x, y), y \div GCD(x, y)>>

RECURSIVE FoldSeq(_, _, _)
\* the simple operator op folded over the values of rows, from acc
FoldSeq(op, rows, acc) ==
    IF rows = <<>> THEN acc
    ELSE FoldSeq(op, Tail(rows),
                 CASE op = "SUM" -> acc + Head(rows)
                   [] op = "COUNT" -> acc + 1
                   [] op = "MIN" -> (IF Head(rows) < acc THEN Head(rows) ELSE acc)
                   [] op = "MAX" -> (IF Head(rows) > acc THEN Head(rows) ELSE acc))

\* the result of a simple request on one group
SimpleResult(op, rows) ==
    IF op \in {"MIN", "MAX"} THEN FoldSeq(op, Tail(rows), Head(rows))
    ELSE FoldSeq(op, rows, 0)

RECURSIVE OpsInOrder(_)
\* while (not ops.empty()) emplace_back(col, *ops.begin())
OpsInOrder(ops) ==
    IF ops = {} THEN <<>>
    ELSE LET first == CHOOSE o \in ops : \A q \in ops : OpRank(o) <= OpRank(q)
         IN <<first>> \o OpsInOrder(ops \ {first})

\* columns_to_ops[col] after the for_each over the requests
columns_to_ops(reqs, col) ==
    UNION { IF reqs[i][2] = "AVG" THEN {"COUNT", "SUM"} ELSE {reqs[i][2]} :
            i \in {j \in 1..Len(reqs) : reqs[j][1] = col} }

\* one simple request per request, nothing merged: AVG becomes its SUM
compound_to_simple_nomerge(compound_requests, order) ==
    [k \in 1..Len(compound_requests) |->
        <<compound_requests[k][1],
          IF compound_requests[k][2] = "AVG" THEN "SUM" ELSE compound_requests[k][2]>>]

RECURSIVE compound_to_simple(_, _)
compound_to_simple(compound_requests, order) ==
    IF order = <<>> THEN <<>>
    ELSE LET col == Head(order)
             ops == OpsInOrder(columns_to_ops(compound_requests, col))
         IN [k \in 1..Len(ops) |-> <<col, ops[k]>>]
            \o compound_to_simple(compound_requests, Tail(order))

\* gdf_column* compute_average(sum, count): a new FLOAT64 column
compute_average(sum, count, id) ==
    [id |-> id,
     dtype |-> "GDF_FLOAT64",
     data |-> [g \in 1..Len(sum.data) |->
                  Quotient(sum.data[g][1], count.data[g][1])]]

AggInit ==
    /\ \E n \in 0..MaxReqs : original_requests \in [1..n -> AggRequests]
    /\ \E order \in ColOrders :
          simple_requests = compound_to_simple(original_requests, order)
    /\ \E rows \in [ValueCols -> GroupedRows] :
          simple_outputs =
             [i \in 1..Len(simple_requests) |->
                [id |-> i,
                 dtype |-> "GDF_INT64",
                 data |-> [g \in 1..2 |->
                    <<SimpleResult(simple_requests[i][2],
                                   rows[simple_requests[i][1]][g]), 1>>]]]
    /\ simple_requests_to_outputs = <<>>
    /\ final_value_columns = <<>>
    /\ freed = <<>>
    /\ apc = "call"
    /\ areq = 1
    /\ aerror = ""

AggInputs == <<original_requests, simple_requests, simple_outputs>>

\* simple_requests_to_outputs[simple_requests[i]] = simple_outputs.get_column(i)
BuildRequestMap ==
    /\ apc = "call"
    /\ simple_requests_to_outputs' =
          [r \in {simple_requests[i] : i \in 1..Len(simple_requests)} |->
              simple_outputs[CHOOSE i \in 1..Len(simple_requests) :
                                /\ simple_requests[i] = r
                                /\ \A j \in 1..Len(simple_requests) :
                                      simple_requests[j] = r => j <= i]]
    /\ apc' = "loop"
    /\ UNCHANGED <<AggInputs, final_value_columns, freed, areq, aerror>>
    /\ UNCHANGED notAgg

Throw(msg) ==
    /\ apc' = "threw"
    /\ aerror' = msg
    /\ UNCHANGED <<simple_requests_to_outputs, final_value_columns, freed, areq>>

\* one iteration of the loop over original_requests, req.second == AVG
RecomposeAverage ==
    /\ apc = "loop"
    /\ areq <= Len(original_requests)
    /\ original_requests[areq][2] = "AVG"
    /\ LET col == original_requests[areq][1]
           found == DOMAIN simple_requests_to_outputs
       IN IF <<col, "SUM">> \notin found THEN Throw("SUM request missing.")
          ELSE IF <<col, "COUNT">> \notin found THEN Throw("COUNT request missing.")
          ELSE /\ final_value_columns' = Append(final_value_columns,
                     compute_average(simple_requests_to_outputs[<<col, "SUM">>],
                                     simple_requests_to_outputs[<<col, "COUNT">>],
                                     Len(simple_requests) + areq))
               /\ areq' = areq + 1
               /\ UNCHANGED <<simple_requests_to_outputs, freed, apc, aerror>>
    /\ UNCHANGED AggInputs
    /\ UNCHANGED notAgg

\* an erase that leaves the entry in the map
map_erase_keep(m, req) == m

\* simple_requests_to_outputs.erase(req)
map_erase(m, req) == [r \in DOMAIN m \ {req} |-> m[r]]

\* one iteration of the loop over original_requests, a simple request:
\* its column is appended to the output and its entry erased from the map
AppendSimple ==
    /\ apc = "loop"
    /\ areq <= Len(original_requests)
    /\ original_requests[areq][2] # "AVG"
    /\ LET req == original_requests[areq]
       IN IF req \notin DOMAIN simple_requests_to_outputs
          THEN Throw("Aggregation missing!")
          ELSE /\ final_value_columns' = Append(final_value_columns,
                                                simple_requests_to_outputs[req])
               /\ simple_requests_to_outputs' = map_erase(simple_requests_to_outputs, req)
               /\ areq' = areq + 1
               /\ UNCHANGED <<freed, apc, aerror>>
    /\ UNCHANGED AggInputs
    /\ UNCHANGED notAgg

RECURSIVE FreeInOrder(_)
\* for (auto& p : simple_requests_to_outputs) gdf_column_free(p.second):
\* the ids of the columns of m in the key order of the std::map
FreeInOrder(m) ==
    IF DOMAIN m = {} THEN <<>>
    ELSE LET first == CHOOSE r \in DOMAIN m : \A q \in DOMAIN m :
                         \/ r[1] < q[1]
                         \/ r[1] = q[1] /\ OpRank(r[2]) <= OpRank(q[2])
         IN <<m[first].id>> \o FreeInOrder([r \in DOMAIN m \ {first} |-> m[r]])

\* the columns left in the map are freed and the table is returned
FreeIntermediates ==
    /\ apc = "loop"
    /\ areq > Len(original_requests)
    /\ freed' = FreeInOrder(simple_requests_to_outputs)
    /\ apc' = "returned"
    /\ UNCHANGED <<AggInputs, simple_requests_to_outputs, final_value_columns,
                   areq, aerror>>
    /\ UNCHANGED notAgg

AggNext ==
    \/ BuildRequestMap
    \/ RecomposeAverage
    \/ AppendSimple
    \/ FreeIntermediates

InitAgg == AggInit /\ JoinIdle /\ HandleIdle /\ GroupbyIdle /\ OthersIdle

SpecAgg == InitAgg /\ [][AggNext]_vars


----------------------------------------------------------------------------
(* Claims about the joins of joining.h, checked under SpecJoin *)

NPairs == Count(output) \div 2

\* how often the pair (x, y) occurs in the decoupled output
PairCount(x, y) ==
    Cardinality({i \in 0..(NPairs - 1) : output[i] = x /\ output[i + NPairs] = y})

\* number of rows of rel whose key equals k
Matches(k, rel) == Cardinality({j \in DOMAIN rel : rel[j] = k})

\* every value an output index may take: row indices, the sentinel, a stray value
IndexValues == {Uninit} \cup ((0 - 1)..MaxRows)

ExpectedInner(x, y) ==
    IF x \in DOMAIN a /\ y \in DOMAIN b /\ a[x] = b[y] THEN 1 ELSE 0

ExpectedLeft(x, y) ==
    IF x \in DOMAIN a /\ y = 0 - 1 /\ Matches(a[x], b) = 0 THEN 1
    ELSE ExpectedInner(x, y)

ExpectedFull(x, y) ==
    IF y \in DOMAIN b /\ x = 0 - 1 /\ Matches(b[y], a) = 0 THEN 1
    ELSE ExpectedLeft(x, y)

InnerDone == jpc = "done" /\ jop \in {"inner_join", "inner_join_hash"}

\* C1: the inner join (sort-merge or hash) returns exactly the index pairs
\* (x, y) with a[x] = b[y], each exactly once, and no other pair: a key that
\* occurs m times in a and n times in b yields m * n pairs.
C1_InnerJoinExact ==
    InnerDone =>
        /\ \A x, y \in IndexValues : PairCount(x, y) = ExpectedInner(x, y)
        /\ NPairs = SumTo([i \in DOMAIN a |-> Matches(a[i], b)], Count(a))
        /\ Count(output) = 2 * NPairs

C1_Witness ==
    /\ InnerDone
    /\ jop = "inner_join_hash" /\ HASH_JOIN
    /\ NPairs = 4
    /\ \A i \in DOMAIN a : a[i] = 0 - 1

\* C2: in the left join output a left row with k >= 1 matches occurs k times,
\* once with each matching right index; a left row without a match occurs
\* once, with -1; the output has sum over left rows of max(1, k) pairs.
C2_LeftJoinComplete ==
    (jpc = "done" /\ jop = "left_join") =>
        /\ \A x, y \in IndexValues : PairCount(x, y) = ExpectedLeft(x, y)
        /\ \A x \in DOMAIN a : \E i \in 0..(NPairs - 1) : output[i] = x
        /\ NPairs = SumTo([i \in DOMAIN a |->
                             IF Matches(a[i], b) = 0 THEN 1 ELSE Matches(a[i], b)],
                          Count(a))
        /\ Count(output) = 2 * NPairs

C2_Witness ==
    /\ jpc = "done" /\ jop = "left_join"
    /\ \E x, z \in DOMAIN a : Matches(a[x], b) = 2 /\ Matches(a[z], b) = 0
    /\ NPairs = 3

\* C3: the full join output is the inner matches, one (x, -1) per unmatched
\* left row and one (-1, y) per unmatched right row, nothing else, and its
\* length is join_count + append_count.
C3_FullJoinExact ==
    (jpc = "done" /\ jop = "outer_join") =>
        /\ \A x, y \in IndexValues : PairCount(x, y) = ExpectedFull(x, y)
        /\ NPairs = scan_join_bounds(compute_join_bounds(a, b), Count(a), FALSE).out_join_count
                    + outer_join_count_matches(a, b).append_count
        /\ NPairs = SumTo([i \in DOMAIN a |->
                             IF Matches(a[i], b) = 0 THEN 1 ELSE Matches(a[i], b)],
                          Count(a))
                    + Cardinality({j \in DOMAIN b : Matches(b[j], a) = 0})
        /\ Count(output) = 2 * NPairs

C3_Witness ==
    /\ jpc = "done" /\ jop = "outer_join"
    /\ \E x \in DOMAIN a : Matches(a[x], b) = 0
    /\ \E x \in DOMAIN a : Matches(a[x], b) = 1
    /\ \E y \in DOMAIN b : Matches(b[y], a) = 0
    /\ NPairs = 3

\* C5: inner_join_hash builds on the relation with fewer rows and flips the
\* pairs back after a swap: whatever the row counts, the first half of the
\* output indexes a, the second half b, and the pairs are the matches of a, b.
C5_HashJoinSideSwap ==
    /\ (HASH_JOIN /\ jop = "inner_join_hash" /\ jpc \in {"build", "probe", "done"}) =>
          /\ flip_indices = (Count(a) > Count(b))
          /\ Count(BuildSide) <= Count(ProbeSide)
    /\ (HASH_JOIN /\ jop = "inner_join_hash" /\ jpc = "done") =>
          /\ \A i \in 0..(NPairs - 1) :
                /\ output[i] \in DOMAIN a
                /\ output[i + NPairs] \in DOMAIN b
                /\ a[output[i]] = b[output[i + NPairs]]
          /\ \A x \in DOMAIN a : \A y \in DOMAIN b : PairCount(x, y) = ExpectedInner(x, y)

C5_Witness ==
    /\ HASH_JOIN /\ jop = "inner_join_hash" /\ jpc = "done"
    /\ flip_indices
    /\ Count(a) = 2 /\ Count(b) = 1
    /\ NPairs = 2

\* C6: a join with an empty relation completes without error; the inner join
\* returns no row, the left join every left row once with -1, the full join
\* every row of the other relation once with -1 on the empty side.
C6_EmptyJoinCompletes ==
    (jpc = "done" /\ (Count(a) = 0 \/ Count(b) = 0)) =>
        /\ jstatus = "ok"
        /\ jop \in {"inner_join", "inner_join_hash"} => NPairs = 0
        /\ jop = "left_join" =>
              /\ NPairs = Count(a)
              /\ \A x \in DOMAIN a : PairCount(x, 0 - 1) = 1
        /\ jop = "outer_join" =>
              /\ NPairs = Count(a) + Count(b)
              /\ \A x \in DOMAIN a : PairCount(x, 0 - 1) = 1
              /\ \A y \in DOMAIN b : PairCount(0 - 1, y) = 1

----------------------------------------------------------------------------
(* Claims about the build-once/probe-many handle *)

\* the left and right row index of a returned pair of probe p
LIdx(pr) == pr[1]
RIdx(pr) == pr[2]

\* the row of the caller's left / right table behind probe p
LeftTable(p) == IF pside[p] = "RIGHT" THEN right ELSE left
RightTable(p) == IF pside[p] = "RIGHT" THEN left ELSE right

HPairCount(p, x, y) == Cardinality({k \in 1..Len(pout[p]) : pout[p][k] = <<x, y>>})

HasMatch(r, tbl) == \E j \in DOMAIN tbl : RowsEqual(r, tbl[j])

\* how often the join of kind pkind[p] of the caller's tables holds (x, y)
HExpected(p, x, y) ==
    LET lt == LeftTable(p)
        rt == RightTable(p)
    IN IF x \in DOMAIN lt /\ y \in DOMAIN rt
       THEN (IF RowsEqual(lt[x], rt[y]) THEN 1 ELSE 0)
       ELSE IF x \in DOMAIN lt /\ y = 0 - 1
       THEN (IF pkind[p] \in {"LEFT", "FULL"} /\ ~HasMatch(lt[x], rt) THEN 1 ELSE 0)
       ELSE IF x = 0 - 1 /\ y \in DOMAIN rt
       THEN (IF pkind[p] = "FULL" /\ ~HasMatch(rt[y], lt) THEN 1 ELSE 0)
       ELSE 0

HIndexValues == (0 - 1)..(MaxHRows - 1)

\* C4: with the table built once, every probe that has returned holds
\* exactly the rows of the single-shot join of its kind, whatever the other
\* probes on the handle did meanwhile; a probe that did not run holds nothing.
C4_ProbesIndependent ==
    \A p \in Probes :
        /\ pstat[p] = "done" =>
              /\ \A x, y \in HIndexValues : HPairCount(p, x, y) = HExpected(p, x, y)
              /\ \A k \in 1..Len(pout[p]) :
                    LIdx(pout[p][k]) \in HIndexValues /\ RIdx(pout[p][k]) \in HIndexValues
        /\ pstat[p] \in {"idle", "logic_error"} => pout[p] = <<>>

C4_Witness ==
    /\ pstat[0] = "done" /\ pkind[0] = "FULL" /\ Len(pout[0]) >= 3
    /\ pstat[1] = "running" /\ pkind[1] = "INNER" /\ pside[1] = "RIGHT"
    /\ pnext[1] = 1 /\ Len(pout[1]) = 2

\* a row of tbl with a null in a key column in which every row of other is valid
NullIsolated(r, other) ==
    \E c \in 0..(NKeyCols - 1) : ~r[c][2] /\ \A j \in DOMAIN other : other[j][c][2]

\* C7: rows match only if every key column matches, and a null never
\* matches a non-null value: a row with a null facing only non-null values
\* is absent from the inner join and is returned exactly once, unmatched,
\* by the left join (a left row) and by the full join.
C7_NullNeverMatchesValue ==
    pstat[0] = "done" =>
        LET lt == LeftTable(0)
            rt == RightTable(0)
            out == pout[0]
        IN /\ \A k \in 1..Len(out) :
                 (LIdx(out[k]) >= 0 /\ RIdx(out[k]) >= 0) =>
                    \A c \in 0..(NKeyCols - 1) :
                       LET x == lt[LIdx(out[k])][c]
                           y == rt[RIdx(out[k])][c]
                       IN x[2] = y[2] /\ (x[2] => x[1] = y[1])
           /\ \A i \in DOMAIN lt :
                 NullIsolated(lt[i], rt) =>
                    /\ \A y \in DOMAIN rt : HPairCount(0, i, y) = 0
                    /\ HPairCount(0, i, 0 - 1) = (IF pkind[0] = "INNER" THEN 0 ELSE 1)
           /\ \A j \in DOMAIN rt :
                 NullIsolated(rt[j], lt) =>
                    /\ \A x \in DOMAIN lt : HPairCount(0, x, j) = 0
                    /\ HPairCount(0, 0 - 1, j) = (IF pkind[0] = "FULL" THEN 1 ELSE 0)

C7_Witness ==
    /\ pstat[0] = "done" /\ pkind[0] = "FULL"
    /\ \E i \in DOMAIN left : \E j \in DOMAIN right :
          /\ NullIsolated(left[i], right)
          /\ \A c \in 0..(NKeyCols - 1) : left[i][c][1] = right[j][c][1]
          /\ HPairCount(0, i, 0 - 1) = 1
    /\ \E k \in 1..Len(pout[0]) : LIdx(pout[0][k]) >= 0 /\ RIdx(pout[0][k]) >= 0

\* a shared-column list naming a left key column together with a right
\* column other than the one that key column is joined with
MismatchedCommon(cic) ==
    \E pr \in cic : \E i \in DOMAIN left_on : left_on[i] = pr[1] /\ right_on[i] # pr[2]

----------------------------------------------------------------------------
(* Claims about the hash group-by, checked under SpecGroupby *)

RowsOf(k) == {i \in DOMAIN in_groupby_column : in_groupby_column[i] = k}

RECURSIVE FoldRows(_, _)
\* the combine function folded over the rows of S, starting from acc
FoldRows(S, acc) ==
    IF S = {} THEN acc
    ELSE LET i == CHOOSE r \in S : TRUE
         IN FoldRows(S \ {i},
                     Combine(aggregation_op, acc,
                             Contribution(aggregation_op, in_aggregation_column[i])))

RECURSIVE MapFindFrom(_, _)
\* the slot a lookup of k ends at after off slots of its chain, -1 if none
MapFindFrom(k, off) ==
    IF off >= Count(the_map) THEN 0 - 1
    ELSE LET s == ((GroupbyHashOf(k) % Count(the_map)) + off) % Count(the_map)
         IN IF the_map[s][1] = k THEN s
            ELSE IF the_map[s][1] = unused_key THEN 0 - 1
            ELSE MapFindFrom(k, off + 1)

\* C9: after the build, the value stored for every key of the input is the
\* combine function folded over exactly the rows carrying that key, from
\* the identity, and no slot holds a key that is not in the input.
C9_BuildFoldsPerKey ==
    gpc = "built" =>
        /\ \A k \in GroupbyKeys :
              RowsOf(k) # {} =>
                 /\ MapFindFrom(k, 0) >= 0
                 /\ the_map[MapFindFrom(k, 0)][2] =
                       FoldRows(RowsOf(k), IDENTITY(aggregation_op))
        /\ \A s \in DOMAIN the_map :
              the_map[s][1] # unused_key => RowsOf(the_map[s][1]) # {}

----------------------------------------------------------------------------
(* Claims about the aggregation requests, checked under SpecAgg *)

\* the rows behind the simple outputs, read back from the COUNT/SUM columns
ExpectedData(req) ==
    LET col == req[1]
        out(op) == simple_outputs[CHOOSE i \in 1..Len(simple_requests) :
                                     simple_requests[i] = <<col, op>>].data
    IN IF req[2] = "AVG"
       THEN [g \in 1..2 |-> Quotient(out("SUM")[g][1], out("COUNT")[g][1])]
       ELSE out(req[2])

\* C10: for every list of original requests, in any order and with
\* repetitions, compute_original_requests returns one column per original
\* request, in request order: AVG as SUM / COUNT, any other as its simple result.
C10_OneColumnPerRequest ==
    apc \in {"returned", "threw"} =>
        /\ apc = "returned"
        /\ Len(final_value_columns) = Len(original_requests)
        /\ \A i \in 1..Len(original_requests) :
              final_value_columns[i].data = ExpectedData(original_requests[i])

\* how often column id was given to gdf_column_free
FreeCount(id) == Cardinality({k \in 1..Len(freed) : freed[k] = id})

\* whether some original request names the simple request explicitly
NamedExplicitly(req) ==
    \E k \in 1..Len(original_requests) : original_requests[k] = req

\* C11: after compute_original_requests returns, a simple result column has
\* been freed (exactly once) iff no original request named its (column,
\* simple-op) pair, and every column of the returned table is still live.
C11_IntermediatesFreedOnce ==
    apc = "returned" =>
        /\ \A i \in 1..Len(simple_requests) :
              FreeCount(simple_outputs[i].id) =
                 (IF NamedExplicitly(simple_requests[i]) THEN 0 ELSE 1)
        /\ \A k \in 1..Len(final_value_columns) :
              FreeCount(final_value_columns[k].id) = 0
        /\ \A k \in 1..Len(freed) :
              \E i \in 1..Len(simple_requests) : simple_outputs[i].id = freed[k]

C11_Witness ==
    /\ apc = "returned"
    /\ Len(freed) = 2
    /\ Len(final_value_columns) = 3
    /\ \E k \in 1..3 : original_requests[k][2] = "AVG"
    /\ \E k \in 1..3 : original_requests[k][2] = "SUM"

\* C12: a hash group-by over zero input rows returns successfully, with
\* zero groups and no error.
C12_EmptyGroupbySucceeds ==
    (gpc = "returned" /\ Count(in_groupby_column) = 0) =>
        /\ gerror = "cudaSuccess"
        /\ the_map = EmptyArr

----------------------------------------------------------------------------
(* Group-by MEDIAN, as exercised by cpp/tests/groupby/group_median_test.cpp *)

\* largest number of input rows of the MEDIAN group-by
MaxMRows == 3
\* values of the value column range over 0..MValMax
MValMax == 2

MedianKeys == {1, 2}
MKeyCells == (MedianKeys \X {TRUE}) \cup {<<1, FALSE>>}
MValCells == ((0..MValMax) \X {TRUE}) \cup {<<MValMax, FALSE>>}

RECURSIVE SetSorted(_)
\* the elements of a set of integers in ascending order
SetSorted(S) ==
    IF S = {} THEN <<>>
    ELSE LET m == CHOOSE x \in S : \A y \in S : x <= y
         IN <<m>> \o SetSorted(S \ {m})

\* a group takes the rows whose key is null for key 1 and ignores the
\* validity of the value
InGroup_ignorevalid(i, k) == mkeys[i][1] = k

\* row i belongs to the group of key k and contributes its value
InGroup(i, k) == mkeys[i][2] /\ mkeys[i][1] = k /\ mvals[i][2]

\* seq with v inserted after the elements not greater than v
InsertSorted(seq, v) ==
    LET p == Cardinality({j \in 1..Len(seq) : seq[j] <= v})
    IN SubSeq(seq, 1, p) \o <<v>> \o SubSeq(seq, p + 1, Len(seq))

RECURSIVE SortedGroup(_, _)
\* the sorted values of the group of key k among rows 0..n-1
SortedGroup(k, n) ==
    IF n = 0 THEN <<>>
    ELSE IF InGroup(n - 1, k)
         THEN InsertSorted(SortedGroup(k, n - 1), mvals[n - 1][1])
         ELSE SortedGroup(k, n - 1)

\* quantile 0.5 of sorted values with linear interpolation; null when empty
MedianOf(sorted) ==
    LET n == Len(sorted)
    IN IF n = 0 THEN <<<<0, 1>>, FALSE>>
       ELSE IF n % 2 = 1 THEN <<<<sorted[(n + 1) \div 2], 1>>, TRUE>>
       ELSE <<Quotient(sorted[n \div 2] + sorted[(n \div 2) + 1], 2), TRUE>>

MedianInit ==
    /\ \E n \in 0..MaxMRows :
          /\ mkeys \in [0..(n - 1) -> MKeyCells]
          /\ mvals \in [0..(n - 1) -> MValCells]
    /\ mgroups = <<>>
    /\ mout_keys = <<>>
    /\ mout_vals = <<>>
    /\ mpc = "call"

\* the distinct non-null keys, sorted
GroupKeys ==
    /\ mpc = "call"
    /\ mgroups' = SetSorted({mkeys[i][1] : i \in {j \in DOMAIN mkeys : mkeys[j][2]}})
    /\ mpc' = "groups"
    /\ UNCHANGED <<mkeys, mvals, mout_keys, mout_vals>>
    /\ UNCHANGED notMedian

\* the result row of the next group
MedianOfGroup ==
    /\ mpc = "groups"
    /\ mgroups # <<>>
    /\ mout_keys' = Append(mout_keys, Head(mgroups))
    /\ mout_vals' = Append(mout_vals, MedianOf(SortedGroup(Head(mgroups), Count(mkeys))))
    /\ mgroups' = Tail(mgroups)
    /\ UNCHANGED <<mkeys, mvals, mpc>>
    /\ UNCHANGED notMedian

MedianReturn ==
    /\ mpc = "groups"
    /\ mgroups = <<>>
    /\ mpc' = "done"
    /\ UNCHANGED <<mkeys, mvals, mgroups, mout_keys, mout_vals>>
    /\ UNCHANGED notMedian

MedianNext ==
    \/ GroupKeys
    \/ MedianOfGroup
    \/ MedianReturn

InitMedian == MedianInit /\ JoinIdle /\ HandleIdle /\ GroupbyIdle /\ AggIdle /\ SqlIdle /\ ViewIdle /\ CapIdle /\ BitIdle /\ AvgIdle

SpecMedian == InitMedian /\ [][MedianNext]_vars

\* the rows with non-null key k and non-null value
MedianRows(k) == {i \in DOMAIN mkeys : mkeys[i][2] /\ mkeys[i][1] = k /\ mvals[i][2]}

\* the j-th smallest value among the rows G, by counting
KthSmallest(G, j) ==
    CHOOSE v \in 0..MValMax :
        /\ Cardinality({i \in G : mvals[i][1] <= v}) >= j
        /\ Cardinality({i \in G : mvals[i][1] < v}) < j

\* C13: group-by MEDIAN returns one row per distinct non-null key, null-key
\* rows join no group, and each result is the median of the group's non-null
\* values (middle value, or mean of the two middle values), null when the
\* group has no non-null value.
C13_MedianPerGroup ==
    mpc = "done" =>
        /\ Len(mout_vals) = Len(mout_keys)
        /\ \A k \in MedianKeys :
              Cardinality({p \in 1..Len(mout_keys) : mout_keys[p] = k}) =
                 (IF \E i \in DOMAIN mkeys : mkeys[i][2] /\ mkeys[i][1] = k THEN 1 ELSE 0)
        /\ \A p \in 1..Len(mout_keys) :
              /\ mout_keys[p] \in MedianKeys
              /\ LET G == MedianRows(mout_keys[p])
                     n == Cardinality(G)
                     q == mout_vals[p][1]
                 IN IF n = 0 THEN ~mout_vals[p][2]
                    ELSE /\ mout_vals[p][2]
                         /\ IF n % 2 = 1
                            THEN q[2] = 1 /\ q[1] = KthSmallest(G, (n + 1) \div 2)
                            ELSE 2 * q[1] = q[2] * (KthSmallest(G, n \div 2)
                                                    + KthSmallest(G, (n \div 2) + 1))

C13_Witness ==
    /\ mpc = "done"
    /\ \E i \in DOMAIN mkeys : ~mkeys[i][2]
    /\ \E p \in 1..Len(mout_vals) : mout_vals[p][2] /\ mout_vals[p][1][2] = 2
    /\ Len(mout_keys) = 1

----------------------------------------------------------------------------
(* Type-erased row comparator: libgdf/src/sqls_rtti_comp.hpp, LesserRTTI *)

\* column values range over 0..SqlValMax
SqlValMax == 1

\* the columns of the table (sz_ = 2) and the two rows of a comparison
SqlCols == {0, 1}
PairRows == {0, 1}

\* the value of a floating-point column that compares false with everything
NaN == SqlValMax + 1

\* the tags type_dispatcher has a case for, as modelled, and one it has not
FloatTypes == {"GDF_FLOAT64"}
DispatchedTypes == {"GDF_INT32"} \cup FloatTypes
AllTypes == DispatchedTypes \cup {"GDF_STRING"}

ColumnValues(t) == IF t \in FloatTypes THEN (0..SqlValMax) \cup {NaN} ELSE 0..SqlValMax

\* operator< and operator== of ColType
FLess(x, y) == x # NaN /\ y # NaN /\ x < y
FEq(x, y) == x # NaN /\ y # NaN /\ x = y

at(col_index, row, columns) == columns[col_index][row]

is_valid(col_index, row, valids) == valids[col_index][row]

OpLess(row1, row2, col_index) ==
    LET res1 == at(col_index, row1, columns_)
        res2 == at(col_index, row2, columns_)
    IN IF FLess(res1, res2) THEN "True"
       ELSE IF FEq(res1, res2) THEN "Undecided"
       ELSE "False"

\* a descending column compared as an ascending one
OpGreater_asless(row1, row2, col_index) == OpLess(row1, row2, col_index)

OpGreater(row1, row2, col_index) ==
    LET res1 == at(col_index, row1, columns_)
        res2 == at(col_index, row2, columns_)
    IN IF FLess(res2, res1) THEN "True"
       ELSE IF FEq(res1, res2) THEN "Undecided"
       ELSE "False"

OpEqual(row1, row2, col_index) ==
    LET res1 == at(col_index, row1, columns_)
        res2 == at(col_index, row2, columns_)
    IN IF ~FEq(res1, res2) THEN "False" ELSE "Undecided"

OpEqualV(row, col_index) ==
    LET res1 == at(col_index, row, columns_)
        res2 == vals_[col_index]
    IN IF ~FEq(res1, res2) THEN "False" ELSE "Undecided"

\* a null compared by its stored value
OpLess_with_nulls_stored(row1, row2, col_index) == OpLess(row1, row2, col_index)

OpLess_with_nulls(row1, row2, col_index) ==
    LET res1 == at(col_index, row1, columns_)
        res2 == at(col_index, row2, columns_)
        isValid1 == is_valid(col_index, row1, valids_)
        isValid2 == is_valid(col_index, row2, valids_)
    IN IF ~isValid2 /\ ~isValid1 THEN "Undecided"
       ELSE IF isValid1 /\ isValid2
       THEN (IF FLess(res1, res2) THEN "True"
             ELSE IF FEq(res1, res2) THEN "Undecided"
             ELSE "False")
       ELSE IF ~isValid1 /\ nulls_are_smallest_ THEN "True"
       ELSE IF ~isValid2 /\ ~nulls_are_smallest_ THEN "True"
       ELSE "False"

OpGreater_with_nulls(row1, row2, col_index) ==
    LET res1 == at(col_index, row1, columns_)
        res2 == at(col_index, row2, columns_)
        isValid1 == is_valid(col_index, row1, valids_)
        isValid2 == is_valid(col_index, row2, valids_)
    IN IF ~isValid2 /\ ~isValid1 THEN "Undecided"
       ELSE IF isValid1 /\ isValid2
       THEN (IF FLess(res2, res1) THEN "True"
             ELSE IF FEq(res1, res2) THEN "Undecided"
             ELSE "False")
       ELSE IF ~isValid1 /\ nulls_are_smallest_ THEN "False"
       ELSE IF ~isValid2 /\ ~nulls_are_smallest_ THEN "False"
       ELSE "True"

\* the switch over col_type: a tag without a case runs into assert(false),
\* which aborts in a build with assertions ("Assert") and is compiled out
\* under NDEBUG, where the function goes on to return State::Undecided
type_dispatcher(state, col_type, ndebug) ==
    IF col_type \in DispatchedTypes THEN state
    ELSE IF ndebug THEN "Undecided"
    ELSE "Assert"

type_dispatcher_with_nulls(state, col_type, ndebug) ==
    IF col_type \in DispatchedTypes THEN state
    ELSE IF ndebug THEN "Undecided"
    ELSE "Assert"

RECURSIVE DecisiveFrom(_, _)
\* the loop of less / asc_desc_comparison from column c on: the first state
\* that is not Undecided is returned, false after the last column
DecisiveFrom(states, c) ==
    IF c \notin DOMAIN states THEN "false"
    ELSE CASE states[c] = "False" -> "false"
           [] states[c] = "True" -> "true"
           [] states[c] = "Assert" -> "assert_failed"
           [] OTHER -> DecisiveFrom(states, c + 1)

RECURSIVE EqualFrom(_, _)
\* the loop of equal / equal_v from column c on: false at the first False
EqualFrom(states, c) ==
    IF c \notin DOMAIN states THEN "true"
    ELSE CASE states[c] = "False" -> "false"
           [] states[c] = "Assert" -> "assert_failed"
           [] OTHER -> EqualFrom(states, c + 1)

\* asc = true unless flags are given and say otherwise
Asc(col_index) ==
    IF asc_desc_flags_ = EmptyArr THEN TRUE ELSE asc_desc_flags_[col_index] = "ASC"

asc_desc_comparison(row1, row2, ndebug) ==
    DecisiveFrom([c \in DOMAIN rtti_ |->
                    type_dispatcher(IF Asc(c) THEN OpLess(row1, row2, c)
                                    ELSE OpGreater(row1, row2, c),
                                    rtti_[c], ndebug)], 0)

asc_desc_comparison_with_nulls(row1, row2, ndebug) ==
    DecisiveFrom([c \in DOMAIN rtti_ |->
                    type_dispatcher_with_nulls(
                        IF Asc(c) THEN OpLess_with_nulls(row1, row2, c)
                        ELSE OpGreater_with_nulls(row1, row2, c),
                        rtti_[c], ndebug)], 0)

equal(row1, row2, ndebug) ==
    EqualFrom([c \in DOMAIN rtti_ |->
                 type_dispatcher(OpEqual(row1, row2, c), rtti_[c], ndebug)], 0)

equal_v(row1, ndebug) ==
    EqualFrom([c \in DOMAIN rtti_ |->
                 type_dispatcher(OpEqualV(row1, c), rtti_[c], ndebug)], 0)

less(row1, row2, ndebug) ==
    DecisiveFrom([c \in DOMAIN rtti_ |->
                    type_dispatcher(OpLess(row1, row2, c), rtti_[c], ndebug)], 0)

\* a table of the given row counts whose columns carry the given tags;
\* validity bits are drawn only for a nullable table
SqlTable(types, nullable, rowcounts) ==
    /\ rtti_ \in [SqlCols -> types]
    /\ \E n \in rowcounts :
          /\ columns_ \in [SqlCols -> [0..(n - 1) -> (0..SqlValMax) \cup {NaN}]]
          /\ valids_ \in [SqlCols -> [0..(n - 1) -> IF nullable THEN BOOLEAN ELSE {TRUE}]]
    /\ \A c \in SqlCols : \A r \in DOMAIN columns_[c] :
          columns_[c][r] \in ColumnValues(rtti_[c])
    /\ nulls_are_smallest_ \in (IF nullable THEN BOOLEAN ELSE {FALSE})
    /\ have_nulls = nullable

\* nothing has been called yet
SqlNoCall ==
    /\ sop = "none"
    /\ srow1 = 0
    /\ srow2 = 0
    /\ sresult = "none"
    /\ spc = "call"
    /\ new_sz = 0

\* a comparator over such a table, with or without direction flags
SqlInit(types, nullable, rowcounts) ==
    /\ SqlTable(types, nullable, rowcounts)
    /\ asc_desc_flags_ \in {EmptyArr} \cup [SqlCols -> {"ASC", "DESC"}]
    /\ vals_ = EmptyArr
    /\ d_indx = EmptyArr
    /\ SqlNoCall

SqlInputs == <<columns_, valids_, rtti_, asc_desc_flags_, nulls_are_smallest_,
               have_nulls, vals_>>

\* a comparison of two rows returns
Compared(op, row1, row2, result) ==
    /\ spc = "call"
    /\ sop' = op
    /\ srow1' = row1
    /\ srow2' = row2
    /\ sresult' = result
    /\ spc' = "done"
    /\ UNCHANGED <<SqlInputs, d_indx, new_sz>>
    /\ UNCHANGED notSql

CallLess(row1, row2, ndebug) ==
    Compared("less", row1, row2, less(row1, row2, ndebug))

CallEqual(row1, row2, ndebug) ==
    Compared("equal", row1, row2, equal(row1, row2, ndebug))

CallAscDesc(row1, row2, ndebug) ==
    Compared("asc_desc_comparison", row1, row2, asc_desc_comparison(row1, row2, ndebug))

CallAscDescWithNulls(row1, row2, ndebug) ==
    Compared("asc_desc_comparison_with_nulls", row1, row2,
             asc_desc_comparison_with_nulls(row1, row2, ndebug))

CompareNext ==
    \/ \E row1, row2 \in PairRows : \E ndebug \in BOOLEAN : CallLess(row1, row2, ndebug)
    \/ \E row1, row2 \in PairRows : \E ndebug \in BOOLEAN : CallEqual(row1, row2, ndebug)
    \/ \E row1, row2 \in PairRows : \E ndebug \in BOOLEAN : CallAscDesc(row1, row2, ndebug)

OtherThanSqlIdle == JoinIdle /\ HandleIdle /\ GroupbyIdle /\ AggIdle /\ MedianIdle /\ ViewIdle /\ CapIdle /\ BitIdle /\ AvgIdle

\* the comparators without nulls, on two rows, any tag
InitCompare == SqlInit(AllTypes, FALSE, {2}) /\ OtherThanSqlIdle

SpecCompare == InitCompare /\ [][CompareNext]_vars

CompareNullsNext ==
    \E row1, row2 \in PairRows : \E ndebug \in BOOLEAN :
        CallAscDescWithNulls(row1, row2, ndebug)

\* the null-aware comparator, on two rows of dispatched tags
InitCompareNulls == SqlInit(DispatchedTypes, TRUE, {2}) /\ OtherThanSqlIdle

SpecCompareNulls == InitCompareNulls /\ [][CompareNullsNext]_vars

----------------------------------------------------------------------------
(* Claims about the comparator *)

AllDispatched == \A c \in SqlCols : rtti_[c] \in DispatchedTypes

\* C15: for every row i of columns of supported types, equal(i, i) is true
\* and less(i, i) is false.
C15_Reflexive ==
    (spc = "done" /\ AllDispatched /\ srow1 = srow2) =>
        /\ sop = "equal" => sresult = "true"
        /\ sop = "less" => sresult = "false"

\* the columns in which the two rows of the comparison differ
DifferingCols ==
    {c \in SqlCols : ~FEq(columns_[c][srow1], columns_[c][srow2])}

\* whether column c is compared ascending by the function called
AscendingIn(c) ==
    sop = "less" \/ asc_desc_flags_ = EmptyArr \/ asc_desc_flags_[c] = "ASC"

\* C16: less and asc_desc_comparison return the verdict of the first column
\* in which the rows differ (true iff row1 is smaller in an ascending column,
\* larger in a descending one), false when the rows tie everywhere, and
\* asc_desc_comparison without flags equals less.
C16_FirstDifferenceDecides ==
    (spc = "done" /\ AllDispatched /\ sop \in {"less", "asc_desc_comparison"}) =>
        /\ IF DifferingCols = {} THEN sresult = "false"
           ELSE LET c == CHOOSE d \in DifferingCols : \A e \in DifferingCols : d <= e
                    x == columns_[c][srow1]
                    y == columns_[c][srow2]
                IN sresult = (IF (AscendingIn(c) /\ FLess(x, y))
                                 \/ (~AscendingIn(c) /\ FLess(y, x))
                              THEN "true" ELSE "false")
        /\ (sop = "asc_desc_comparison" /\ asc_desc_flags_ = EmptyArr) =>
              sresult = less(srow1, srow2, TRUE)

C16_Witness ==
    /\ spc = "done" /\ AllDispatched /\ sop = "asc_desc_comparison"
    /\ asc_desc_flags_ # EmptyArr
    /\ asc_desc_flags_[1] = "DESC" /\ asc_desc_flags_[0] = "ASC"
    /\ columns_[0][srow1] = columns_[0][srow2]
    /\ columns_[1][srow1] > columns_[1][srow2]
    /\ rtti_[0] = "GDF_INT32"
    /\ sresult = "true"

\* the two cells of column c are both null, or both valid and equal
NullAwareTie(c) ==
    \/ ~valids_[c][srow1] /\ ~valids_[c][srow2]
    \/ /\ valids_[c][srow1] /\ valids_[c][srow2]
       /\ FEq(columns_[c][srow1], columns_[c][srow2])

\* C17: asc_desc_comparison_with_nulls returns the verdict of the first
\* column that does not tie, where two nulls tie, two valid values compare by
\* value, and a null against a valid value orders first exactly when
\* nulls_are_smallest agrees with the column being ascending; the value
\* stored under a null plays no part.
C17_NullPolicy ==
    (spc = "done" /\ sop = "asc_desc_comparison_with_nulls") =>
        LET D == {c \in SqlCols : ~NullAwareTie(c)}
        IN IF D = {} THEN sresult = "false"
           ELSE LET c == CHOOSE d \in D : \A e \in D : d <= e
                    x == columns_[c][srow1]
                    y == columns_[c][srow2]
                    ascending == asc_desc_flags_ = EmptyArr \/ asc_desc_flags_[c] = "ASC"
                    first == IF valids_[c][srow1] /\ valids_[c][srow2]
                             THEN (IF ascending THEN FLess(x, y) ELSE FLess(y, x))
                             ELSE (~valids_[c][srow1]) <=> (nulls_are_smallest_ <=> ascending)
                IN sresult = (IF first THEN "true" ELSE "false")

C17_Witness ==
    /\ spc = "done" /\ sop = "asc_desc_comparison_with_nulls"
    /\ ~valids_[0][srow1] /\ valids_[0][srow2]
    /\ columns_[0][srow1] > columns_[0][srow2]
    /\ nulls_are_smallest_
    /\ asc_desc_flags_ = EmptyArr
    /\ sresult = "true"

\* C19: a comparison that dispatches on a type tag outside the supported set
\* ends in an explicit error, never in an ordinary result (column 0 is
\* dispatched on by every comparison).
C19_UnsupportedTagFails ==
    (spc = "done" /\ sop \in {"less", "equal", "asc_desc_comparison"}
        /\ rtti_[0] \notin DispatchedTypes) =>
        sresult = "assert_failed"

----------------------------------------------------------------------------
(* multi_col_filter: libgdf/src/sqls_rtti_comp.hpp *)

\* the filtered table has at most MaxFRows rows
MaxFRows == 3

\* the content of an output position nothing was written to
Unwritten == -1

\* thrust::copy_if that stores every index
copy_if_all(indx, nrows, out, last) == <<[k \in DOMAIN out |-> k], nrows>>

RECURSIVE copy_if(_, _, _, _)
\* thrust::copy_if over the counting iterator from indx to nrows: the indices
\* whose row satisfies equal_v are stored from position last on, in order;
\* yields the output array and the iterator past the last stored element
copy_if(indx, nrows, out, last) ==
    IF indx >= nrows THEN <<out, last>>
    ELSE IF equal_v(indx, TRUE) = "true"
    THEN copy_if(indx + 1, nrows, [out EXCEPT ![last] = indx], last + 1)
    ELSE copy_if(indx + 1, nrows, out, last)

FilterInit ==
    /\ SqlTable(DispatchedTypes, FALSE, 0..MaxFRows)
    /\ asc_desc_flags_ = EmptyArr
    /\ vals_ \in [SqlCols -> (0..SqlValMax) \cup {NaN}]
    /\ \A c \in SqlCols : vals_[c] \in ColumnValues(rtti_[c])
    /\ d_indx = [k \in DOMAIN columns_[0] |-> Unwritten]
    /\ SqlNoCall

multi_col_filter ==
    /\ spc = "call"
    /\ LET nrows == Cardinality(DOMAIN columns_[0])
           ret == copy_if(0, nrows, d_indx, 0)
       IN /\ d_indx' = ret[1]
          /\ new_sz' = ret[2]
    /\ sop' = "multi_col_filter"
    /\ spc' = "done"
    /\ UNCHANGED <<SqlInputs, srow1, srow2, sresult>>
    /\ UNCHANGED notSql

FilterNext == multi_col_filter

InitFilter == FilterInit /\ OtherThanSqlIdle

SpecFilter == InitFilter /\ [][FilterNext]_vars

\* the rows that equal the target tuple in every column
MatchingRows ==
    {r \in DOMAIN columns_[0] : \A c \in SqlCols : FEq(columns_[c][r], vals_[c])}

\* C18: multi_col_filter returns the number of rows equal to the target tuple
\* in every column and writes exactly their indices to the first positions
\* of the output, strictly increasing; the positions from the returned count
\* on are not written.
C18_FilterCompacts ==
    (spc = "done" /\ sop = "multi_col_filter") =>
        /\ new_sz = Cardinality(MatchingRows)
        /\ {d_indx[k] : k \in 0..(new_sz - 1)} = MatchingRows
        /\ \A k \in 0..(new_sz - 2) : d_indx[k] < d_indx[k + 1]
        /\ \A k \in DOMAIN d_indx : k >= new_sz => d_indx[k] = Unwritten

C18_Witness ==
    /\ spc = "done" /\ sop = "multi_col_filter"
    /\ new_sz = 2
    /\ d_indx = (0 :> 0 @@ 1 :> 2 @@ 2 :> Unwritten)

----------------------------------------------------------------------------
(* multi_col_order_by, multi_col_order_by_asc_desc: libgdf/src/sqls_rtti_comp.hpp *)

\* the sorted table has at most MaxSRows rows
MaxSRows == 3

\* the table is sorted by the null-blind comparator whatever have_nulls says
SortComp_ignorenulls(i1, i2) == asc_desc_comparison(i1, i2, TRUE) = "true"

\* the lambda handed to thrust::sort
SortComp(i1, i2) ==
    IF have_nulls
    THEN asc_desc_comparison_with_nulls(i1, i2, TRUE) = "true"
    ELSE asc_desc_comparison(i1, i2, TRUE) = "true"

\* thrust::sequence(d_indx, d_indx + nrows, 0)
thrust_sequence(nrows) == [k \in 1..nrows |-> k - 1]

RECURSIVE thrust_merge(_, _)
\* merge of two sorted runs; the left run's element goes first unless the
\* right run's is ordered before it
thrust_merge(run1, run2) ==
    IF run1 = <<>> THEN run2
    ELSE IF run2 = <<>> THEN run1
    ELSE IF SortComp(Head(run2), Head(run1))
    THEN <<Head(run2)>> \o thrust_merge(run1, Tail(run2))
    ELSE <<Head(run1)>> \o thrust_merge(Tail(run1), run2)

RECURSIVE thrust_sort(_)
\* thrust::sort with a user comparator: a merge sort
thrust_sort(s) ==
    IF Len(s) <= 1 THEN s
    ELSE LET h == Len(s) \div 2
         IN thrust_merge(thrust_sort(SubSeq(s, 1, h)),
                         thrust_sort(SubSeq(s, h + 1, Len(s))))

\* integer columns of up to MaxSRows rows, with or without nulls, and an
\* index array of nrows elements
OrderByInit ==
    /\ \E nullable \in BOOLEAN : SqlTable({"GDF_INT32"}, nullable, 0..MaxSRows)
    /\ asc_desc_flags_ \in {EmptyArr} \cup [SqlCols -> {"ASC", "DESC"}]
    /\ vals_ = EmptyArr
    /\ d_indx = [k \in DOMAIN columns_[0] |-> Unwritten]
    /\ SqlNoCall

\* sequence, then sort, of either function
OrderBy(op) ==
    /\ spc = "call"
    /\ LET nrows == Cardinality(DOMAIN columns_[0])
           sorted == thrust_sort(thrust_sequence(nrows))
       IN d_indx' = [k \in 0..(nrows - 1) |-> sorted[k + 1]]
    /\ sop' = op
    /\ spc' = "done"
    /\ UNCHANGED <<SqlInputs, srow1, srow2, sresult, new_sz>>
    /\ UNCHANGED notSql

\* this function takes no flags: every column ascending
multi_col_order_by ==
    /\ asc_desc_flags_ = EmptyArr
    /\ OrderBy("multi_col_order_by")

multi_col_order_by_asc_desc == OrderBy("multi_col_order_by_asc_desc")

OrderByNext ==
    \/ multi_col_order_by
    \/ multi_col_order_by_asc_desc

InitOrderBy == OrderByInit /\ OtherThanSqlIdle

SpecOrderBy == InitOrderBy /\ [][OrderByNext]_vars

\* the cells of rows r1 and r2 in column c tie under the requested comparison
CellsTie(c, r1, r2) ==
    IF have_nulls /\ ~(valids_[c][r1] /\ valids_[c][r2])
    THEN ~valids_[c][r1] /\ ~valids_[c][r2]
    ELSE FEq(columns_[c][r1], columns_[c][r2])

\* row r1 is ordered before row r2 by the request: decided by the first
\* column that does not tie, by value and direction, or by the null policy
Precedes(r1, r2) ==
    LET D == {c \in SqlCols : ~CellsTie(c, r1, r2)}
    IN /\ D # {}
       /\ LET c == CHOOSE d \in D : \A e \in D : d <= e
              ascending == asc_desc_flags_ = EmptyArr \/ asc_desc_flags_[c] = "ASC"
          IN IF have_nulls /\ ~(valids_[c][r1] /\ valids_[c][r2])
             THEN (~valids_[c][r1]) <=> (nulls_are_smallest_ <=> ascending)
             ELSE IF ascending THEN FLess(columns_[c][r1], columns_[c][r2])
             ELSE FLess(columns_[c][r2], columns_[c][r1])

----------------------------------------------------------------------------
(* Column views: cpp/src/column/column_view.cpp *)

\* sizes and null counts handed to the view range up to MaxViewSize (+1)
MaxViewSize == 2

\* the null count that asks for recomputation from the mask
UNKNOWN_NULL_COUNT == -1

ViewTypes == {"INT32", "STRING", "EMPTY"}

is_compound(type) == type = "STRING"

\* whether the view has a null mask
nullable == _null_mask

\* the CUDF_EXPECTS conditions of the constructor all hold
ConstructorAccepts(type, size, data, null_mask, null_count, offset) ==
    /\ size >= 0
    /\ IF type = "EMPTY" THEN ~data /\ ~null_mask
       ELSE IF is_compound(type) THEN ~data
       ELSE size > 0 => data
    /\ offset >= 0
    /\ (null_count > 0 /\ type # "EMPTY") => null_mask

\* no view exists yet
ViewInit ==
    /\ _type = "none"
    /\ _size = 0
    /\ _data = FALSE
    /\ _null_mask = FALSE
    /\ _null_count = 0
    /\ _offset = 0
    /\ vpc = "none"
    /\ vthrown = "none"
    /\ vcall = <<>>

\* mutable_column_view(type, size, data, null_mask, null_count, offset), no children
column_view_base(type, size, data, null_mask, null_count, offset) ==
    /\ vpc = "none"
    /\ vcall' = <<"column_view_base">>
    /\ IF ConstructorAccepts(type, size, data, null_mask, null_count, offset)
       THEN /\ _type' = type
            /\ _size' = size
            /\ _data' = data
            /\ _null_mask' = null_mask
            /\ _null_count' = (IF type = "EMPTY" THEN size ELSE null_count)
            /\ _offset' = offset
            /\ vpc' = "view"
            /\ vthrown' = "none"
       ELSE /\ vpc' = "threw"
            /\ vthrown' = "logic_error"
            /\ UNCHANGED <<_type, _size, _data, _null_mask, _null_count, _offset>>
    /\ UNCHANGED notView

set_null_count(new_null_count) ==
    /\ vpc = "view"
    /\ vcall' = <<"set_null_count", new_null_count>>
    /\ IF new_null_count > 0 /\ ~nullable
       THEN /\ vthrown' = "logic_error"
            /\ UNCHANGED _null_count
       ELSE /\ vthrown' = "none"
            /\ _null_count' = new_null_count
    /\ UNCHANGED <<_type, _size, _data, _null_mask, _offset, vpc>>
    /\ UNCHANGED notView

\* column_view::slice: on success the view at hand becomes the slice
slice(slice_offset, slice_size) ==
    /\ vpc = "view"
    /\ vcall' = <<"slice", slice_offset, slice_size>>
    /\ LET expecetd_size == _offset + slice_offset + slice_size
           tmp_null_mask == IF slice_size > 0 THEN _null_mask ELSE FALSE
       IN IF /\ slice_size >= 0
             /\ slice_offset >= 0
             /\ expecetd_size <= _size
             /\ ConstructorAccepts(_type, slice_size, _data, tmp_null_mask,
                                   UNKNOWN_NULL_COUNT, _offset + slice_offset)
          THEN /\ _size' = slice_size
               /\ _null_mask' = tmp_null_mask
               /\ _null_count' = (IF _type = "EMPTY" THEN slice_size
                                  ELSE UNKNOWN_NULL_COUNT)
               /\ _offset' = _offset + slice_offset
               /\ vthrown' = "none"
               /\ UNCHANGED <<_type, _data, vpc>>
          ELSE /\ vthrown' = "logic_error"
               /\ UNCHANGED <<_type, _size, _data, _null_mask, _null_count,
                              _offset, vpc>>
    /\ UNCHANGED notView

ViewNext ==
    \/ \E type \in ViewTypes, size \in -1..MaxViewSize, data \in BOOLEAN,
          null_mask \in BOOLEAN,
          null_count \in UNKNOWN_NULL_COUNT..(MaxViewSize + 1), offset \in -1..1 :
          column_view_base(type, size, data, null_mask, null_count, offset)
    \/ \E new_null_count \in UNKNOWN_NULL_COUNT..(MaxViewSize + 1) :
          set_null_count(new_null_count)
    \/ \E slice_offset, slice_size \in -1..MaxViewSize :
          slice(slice_offset, slice_size)

InitView == ViewInit /\ JoinIdle /\ HandleIdle /\ GroupbyIdle /\ AggIdle /\ MedianIdle /\ SqlIdle /\ CapIdle /\ BitIdle /\ AvgIdle

SpecView == InitView /\ [][ViewNext]_vars

\* C20: a constructed view, also after any set_null_count calls, has
\* size >= 0, offset >= 0, null_count <= size, and null_count 0 or unknown when
\* it has no null mask.
C20_ViewInvariant ==
    vpc = "view" =>
        /\ _size >= 0
        /\ _offset >= 0
        /\ _null_count <= _size
        /\ ~_null_mask => _null_count \in {0, UNKNOWN_NULL_COUNT}


\* C21: slice(slice_offset, slice_size) succeeds exactly when both arguments
\* are non-negative and slice_offset + slice_size <= size() of the sliced
\* view, whatever that view's offset, and then yields a view of slice_size
\* elements at offset() + slice_offset over the same data with unknown null
\* count; otherwise it throws logic_error.
C21_SliceWithinSize ==
    [][(vcall' # <<>> /\ vcall'[1] = "slice") =>
          LET slice_offset == vcall'[2]
              slice_size == vcall'[3]
          IN IF slice_offset >= 0 /\ slice_size >= 0
                /\ slice_offset + slice_size <= _size
             THEN /\ vthrown' = "none"
                  /\ _size' = slice_size
                  /\ _offset' = _offset + slice_offset
                  /\ _data' = _data
                  /\ _type # "EMPTY" => _null_count' = UNKNOWN_NULL_COUNT
             ELSE vthrown' = "logic_error"]_vars


\* the distinct key values of the input
DistinctKeys == {in_groupby_column[i] : i \in DOMAIN in_groupby_column}

\* C22: when the extraction has finished, out_size is the number of distinct
\* key values of the input (the maximum key value included), the positions
\* 0..out_size-1 hold the key and value of the non-empty slots, one slot per
\* position, and no slot twice.
C22_ExtractDense ==
    (gpc = "returned" /\ gerror = "cudaSuccess") =>
        /\ out_size = Cardinality(DistinctKeys)
        /\ \A s \in DOMAIN the_map :
              the_map[s][1] # unused_key =>
                 \E k \in 0..(out_size - 1) :
                    /\ out_groupby_column[k] = the_map[s][1]
                    /\ out_aggregation_column[k] = the_map[s][2]
        /\ \A k \in 0..(out_size - 1) :
              \E s \in DOMAIN the_map :
                 /\ the_map[s][1] # unused_key
                 /\ out_groupby_column[k] = the_map[s][1]
                 /\ out_aggregation_column[k] = the_map[s][2]
        /\ \A k1, k2 \in 0..(out_size - 1) :
              k1 # k2 => out_groupby_column[k1] # out_groupby_column[k2]


\* the matching index pairs of the two relations
TrueMatches == {xy \in (DOMAIN a) \X (DOMAIN b) : a[xy[1]] = b[xy[2]]}

RequiredBy(req) ==
    IF req[2] = "AVG" THEN {<<req[1], "SUM">>, <<req[1], "COUNT">>} ELSE {req}

\* C24: the list compound_to_simple returns holds no AVG and no pair twice,
\* holds (c, SUM) and (c, COUNT) for every requested AVG(c) and (c, op) for
\* every other request, and holds nothing no request needs.
C24_MinimalSimpleRequests ==
    LET simple == {simple_requests[i] : i \in 1..Len(simple_requests)}
        needed == UNION {RequiredBy(original_requests[k]) :
                           k \in 1..Len(original_requests)}
    IN /\ \A i \in 1..Len(simple_requests) : simple_requests[i][2] # "AVG"
       /\ \A i, j \in 1..Len(simple_requests) :
             i # j => simple_requests[i] # simple_requests[j]
       /\ simple = needed

C24_Witness ==
    /\ apc = "returned"
    /\ Len(original_requests) = 3
    /\ original_requests[1] = <<0, "AVG">>
    /\ original_requests[2] = <<0, "SUM">>
    /\ original_requests[3] = <<0, "COUNT">>
    /\ Len(simple_requests) = 2


----------------------------------------------------------------------------
(* Hash table sizing: groupby_compute_api.h line 67, joining.h line 210 *)

\* every row count up to MaxCapRows is tried
MaxCapRows == 64

\* row counts of an int around the limits of n * 100 and n * 2
LargeRowCounts ==
    {21474836, 21474837, 42949672, 42949673, 1073741823, 1073741824, 2147483647}

CapInit ==
    /\ row_count \in (1..MaxCapRows) \cup LargeRowCounts
    /\ table_capacity = 0
    /\ cpc = "call"

\* GroupbyHash sizes its map
SizeGroupbyTable ==
    /\ cpc = "call"
    /\ table_capacity' = hash_table_size(row_count)
    /\ cpc' = "GroupbyHash"
    /\ UNCHANGED row_count
    /\ UNCHANGED notCap

\* inner_join_hash sizes its multimap; where a_count * 100 overflows int the
\* build decides between the wrapped product and the folded expression
SizeJoinTable ==
    /\ cpc = "call"
    /\ table_capacity' \in {hash_tbl_size(row_count)} \cup
           (IF as_int(mul100_32(row_count)) \div 100 = row_count THEN {}
            ELSE {hash_tbl_size_folded(row_count)})
    /\ cpc' = "inner_join_hash"
    /\ UNCHANGED row_count
    /\ UNCHANGED notCap

CapNext ==
    \/ SizeGroupbyTable
    \/ SizeJoinTable

InitCap == CapInit /\ JoinIdle /\ HandleIdle /\ GroupbyIdle /\ AggIdle /\ MedianIdle /\ SqlIdle /\ ViewIdle /\ BitIdle /\ AvgIdle

SpecCap == InitCap /\ [][CapNext]_vars

\* C25: for every permitted row count n the capacity computed as
\* n * 100 / 50 in the size type is 2n (so the n rows fill at most half).
C25_CapacityIsTwiceRows ==
    cpc \in {"GroupbyHash", "inner_join_hash"} =>
        /\ table_capacity % 2 = 0
        /\ table_capacity \div 2 = row_count

----------------------------------------------------------------------------
(* Validity bit masks: cpp/src/bitmask/bit_mask.h *)

\* masks are created for up to MaxRecords records
MaxRecords == 34

\* constexpr gdf_size_type BITS_PER_ELEMENT{sizeof(bit_mask_t) * 8}, uint32_t
BITS_PER_ELEMENT == 32

\* a bit_mask_t word is the set of the positions of its one-bits
AllOnes == 0..(BITS_PER_ELEMENT - 1)

\* the records whose bit is set or cleared: around the first word boundary
TestedRecords == {0, 1, 31, 32, 33}

\* the padding_bytes handed to CreateBitMask: one word, and the default
Paddings == {4, 64}

\* every record in word 0
WhichElement_first(record_idx) == 0

WhichElement(record_idx) == record_idx \div BITS_PER_ELEMENT

WhichBit(record_idx) == record_idx % BITS_PER_ELEMENT

NumElements(size) == (size + (BITS_PER_ELEMENT - 1)) \div BITS_PER_ELEMENT

\* (valid[rec] & (bit_mask_t{1} << bit)) != 0
IsValid(valid, record_idx) ==
    WhichBit(record_idx) \in valid[WhichElement(record_idx)]

\* bit_mask_t{1} << bits, then temp--: the low bits ones; a shift by the
\* width of the word is undefined, the build either takes the count modulo
\* the width (1 << 0, temp = 0) or shifts the one out (0, temp = all ones)
LeftMaskOfOnes(bits, count_wraps) ==
    IF bits < BITS_PER_ELEMENT THEN 0..(bits - 1)
    ELSE IF count_wraps THEN {}
    ELSE AllOnes

BitInit ==
    /\ bit_mask = EmptyArr
    /\ number_of_records = 0
    /\ bpc = "none"
    /\ bcall = <<>>
    /\ bfault = FALSE

CreateBitMask(records, fill_value, padding_bytes, count_wraps) ==
    /\ bpc = "none"
    /\ LET num_bytes == (records + 7) \div 8
           num_padding_blocks == (num_bytes + padding_bytes - 1) \div padding_bytes
           num_elements == NumElements(num_padding_blocks * 8 * padding_bytes)
           used_elements == NumElements(records)
           bits_used_in_last_element ==
               records - (used_elements - 1) * BITS_PER_ELEMENT
           temp == LeftMaskOfOnes(bits_used_in_last_element, count_wraps)
           memset == [e \in 0..(num_elements - 1) |->
                        IF fill_value = 1 /\ e < used_elements THEN AllOnes ELSE {}]
       IN IF fill_value = 1
          THEN IF (used_elements - 1) \in DOMAIN memset
               THEN /\ bit_mask' = [memset EXCEPT ![used_elements - 1] = temp]
                    /\ bfault' = FALSE
               ELSE /\ bit_mask' = memset
                    /\ bfault' = TRUE
          ELSE /\ bit_mask' = memset
               /\ bfault' = FALSE
    /\ number_of_records' = records
    /\ bcall' = <<"CreateBitMask", fill_value>>
    /\ bpc' = "mask"
    /\ UNCHANGED notBit

\* a call on record_idx that leaves word rec of the mask as word
WriteWord(name, record_idx, word) ==
    /\ bpc = "mask"
    /\ record_idx < number_of_records
    /\ WhichElement(record_idx) \in DOMAIN bit_mask
    /\ bit_mask' = [bit_mask EXCEPT ![WhichElement(record_idx)] = word]
    /\ bcall' = <<name, record_idx>>
    /\ UNCHANGED <<number_of_records, bpc, bfault>>
    /\ UNCHANGED notBit

\* valid[rec] = valid[rec] | (bit_mask_t{1} << bit)
SetBitUnsafe(record_idx) ==
    WriteWord("SetBitUnsafe", record_idx,
              bit_mask[WhichElement(record_idx)] \cup {WhichBit(record_idx)})

\* valid[rec] = valid[rec] & (~(bit_mask_t{1} << bit))
ClearBitUnsafe(record_idx) ==
    WriteWord("ClearBitUnsafe", record_idx,
              bit_mask[WhichElement(record_idx)] \ {WhichBit(record_idx)})

\* atomicOr(&valid[rec], bit_mask_t{1} << bit)
SetBitSafe(record_idx) ==
    WriteWord("SetBitSafe", record_idx,
              bit_mask[WhichElement(record_idx)] \cup {WhichBit(record_idx)})

\* atomicAnd(&valid[rec], ~(bit_mask_t{1} << bit))
ClearBitSafe(record_idx) ==
    WriteWord("ClearBitSafe", record_idx,
              bit_mask[WhichElement(record_idx)] \ {WhichBit(record_idx)})

BitNext ==
    \/ \E records \in 0..MaxRecords, fill_value \in {0, 1},
          padding_bytes \in Paddings, count_wraps \in BOOLEAN :
          CreateBitMask(records, fill_value, padding_bytes, count_wraps)
    \/ \E record_idx \in TestedRecords : SetBitUnsafe(record_idx)
    \/ \E record_idx \in TestedRecords : ClearBitUnsafe(record_idx)
    \/ \E record_idx \in TestedRecords : SetBitSafe(record_idx)
    \/ \E record_idx \in TestedRecords : ClearBitSafe(record_idx)

InitBit == BitInit /\ JoinIdle /\ HandleIdle /\ GroupbyIdle /\ AggIdle /\ MedianIdle /\ SqlIdle /\ ViewIdle /\ CapIdle /\ AvgIdle

SpecBit == InitBit /\ [][BitNext]_vars

\* whether the bit of record r is one in a mask, by position
BitOf(m, r) == (r % 32) \in m[r \div 32]

\* C26: a set-bit call on record i leaves IsValid(i) true, a clear-bit call
\* leaves it false, either leaves IsValid(j) as it was for every other
\* record j, and the bit changed is bit (i mod 32) of word (i div 32).
C26_BitFrameEffect ==
    [][(bcall' # <<>> /\ bcall'[1] # "CreateBitMask") =>
          LET i == bcall'[2]
              set == bcall'[1] \in {"SetBitUnsafe", "SetBitSafe"}
          IN /\ IsValid(bit_mask', i) = set
             /\ BitOf(bit_mask', i) = set
             /\ \A j \in 0..(BITS_PER_ELEMENT * Count(bit_mask) - 1) :
                   j # i => /\ IsValid(bit_mask', j) = IsValid(bit_mask, j)
                            /\ BitOf(bit_mask', j) = BitOf(bit_mask, j)]_vars

C26_Witness ==
    /\ bpc = "mask"
    /\ bcall = <<"SetBitSafe", 33>>
    /\ bit_mask[1] = {1}
    /\ bit_mask[0] = AllOnes \ {31}

\* C27: CreateBitMask with fill_value = 1 leaves the first
\* number_of_records bits one and every other allocated bit zero, writing
\* inside the allocation only; with fill_value = 0 every bit is zero.
C27_CreateFill ==
    (bpc = "mask" /\ bcall[1] = "CreateBitMask") =>
        /\ ~bfault
        /\ \A r \in 0..(BITS_PER_ELEMENT * Count(bit_mask) - 1) :
              BitOf(bit_mask, r) = (bcall[2] = 1 /\ r < number_of_records)

----------------------------------------------------------------------------
(* The comparators as orderings of three rows *)

TripleRows == {0, 1, 2}

\* three-row tables; the second column is integral, and a null cell stores 0
OrderingInit ==
    /\ \E with_nulls \in BOOLEAN : SqlInit(DispatchedTypes, with_nulls, {3})
    /\ rtti_[1] = "GDF_INT32"
    /\ \A c \in SqlCols : \A r \in TripleRows : ~valids_[c][r] => columns_[c][r] = 0

OrderingNext ==
    \/ \E row1, row2 \in TripleRows : \E ndebug \in BOOLEAN :
          ~have_nulls /\ CallAscDesc(row1, row2, ndebug)
    \/ \E row1, row2 \in TripleRows : \E ndebug \in BOOLEAN :
          have_nulls /\ CallAscDescWithNulls(row1, row2, ndebug)

InitOrdering == OrderingInit /\ OtherThanSqlIdle

SpecOrdering == InitOrdering /\ [][OrderingNext]_vars

\* row x is ordered before row y by the comparator that was called
Before(x, y) ==
    IF sop = "asc_desc_comparison_with_nulls"
    THEN asc_desc_comparison_with_nulls(x, y, TRUE) = "true"
    ELSE asc_desc_comparison(x, y, TRUE) = "true"

Incomparable(x, y) == ~Before(x, y) /\ ~Before(y, x)

StrictPartial ==
    \A x, y, z \in TripleRows :
        /\ ~Before(x, x)
        /\ ~(Before(x, y) /\ Before(y, x))
        /\ (Before(x, y) /\ Before(y, z)) => Before(x, z)

IncomparabilityTransitive ==
    \A x, y, z \in TripleRows :
        (Incomparable(x, y) /\ Incomparable(y, z)) => Incomparable(x, z)

\* no cell of a valid float row is NaN
NoNaN == \A c \in SqlCols : \A r \in TripleRows : columns_[c][r] # NaN

\* C28: asc_desc_comparison and asc_desc_comparison_with_nulls are strict
\* weak orderings of the rows, whatever the direction flags and
\* nulls_are_smallest: irreflexive, asymmetric, transitive, and with
\* transitive incomparability.
C28_StrictWeakOrdering ==
    (spc = "done" /\ sresult = (IF Before(srow1, srow2) THEN "true" ELSE "false")) =>
        StrictPartial /\ IncomparabilityTransitive

\* what does hold: a strict partial order on every table, and a strict weak
\* ordering on the tables without NaN
StrictPartialAlways == spc = "done" => StrictPartial

WeakOrderingWithoutNaN ==
    (spc = "done" /\ NoNaN) => StrictPartial /\ IncomparabilityTransitive

----------------------------------------------------------------------------
(* Sort-based group-by: multi_col_group_by_*_sort, sqls_rtti_comp.hpp *)

\* the values of the aggregated column range over 0..AggValMax
AggValMax == 2

\* the stream handed in: the null stream or a created one
Streams == {"NULL", "stream1"}

\* positions of keys[0..nrows-1] that open a run: the first, and every one
\* whose predecessor is not equal to it under the binary predicate
RunHeads(keys, nrows) ==
    {k \in 0..(nrows - 1) :
        k = 0 \/ equal(keys[k - 1], keys[k], TRUE) # "true"}

\* the run a position belongs to, counted from 0
RunOf(keys, nrows, k) == Cardinality({h \in RunHeads(keys, nrows) : h <= k}) - 1

RECURSIVE ReduceRun(_, _, _, _, _)
\* vals[k] added up over the positions k < upto of run j
ReduceRun(keys, nrows, vals, j, upto) ==
    IF upto = 0 THEN 0
    ELSE ReduceRun(keys, nrows, vals, j, upto - 1)
         + (IF RunOf(keys, nrows, upto - 1) = j THEN vals[upto - 1] ELSE 0)

\* thrust::reduce_by_key with plus: the first key and the sum of each run
\* of equal consecutive keys, written to the front of kout and vout
reduce_by_key(keys, nrows, vals, kout, vout) ==
    LET g == Cardinality(RunHeads(keys, nrows))
        head(j) == CHOOSE h \in RunHeads(keys, nrows) : RunOf(keys, nrows, h) = j
    IN [kout |-> [k \in DOMAIN kout |-> IF k < g THEN keys[head(k)] ELSE kout[k]],
        vout |-> [k \in DOMAIN vout |->
                    IF k < g THEN ReduceRun(keys, nrows, vals, k, nrows) ELSE vout[k]],
        sz |-> g]

\* if( !sorted ) multi_col_order_by(d_cols, nullptr, d_gdf_t, ncols, d_indx, nrows, ...)
SortedIndex(nrows, indx, sorted) ==
    IF sorted THEN indx
    ELSE LET ordered == thrust_sort(thrust_sequence(nrows))
         IN [k \in 0..(nrows - 1) |-> ordered[k + 1]]

\* COUNT(*) of each run of equal rows; with distinct, the number of runs is
\* stored in the first count and 1 is returned
multi_col_group_by_count_sort(nrows, indx, kout, vout, sorted, distinct) ==
    LET keys == SortedIndex(nrows, indx, sorted)
        ret == reduce_by_key(keys, nrows, [k \in 0..(nrows - 1) |-> 1], kout, vout)
    IN [indx |-> keys,
        kout |-> ret.kout,
        vout |-> IF distinct THEN [ret.vout EXCEPT ![0] = ret.sz] ELSE ret.vout,
        sz |-> IF distinct THEN 1 ELSE ret.sz]

\* the plus lambda of multi_col_group_by_sum_sort handed to
\* multi_col_group_by_sort: gather, then reduce_by_key
multi_col_group_by_sum_sort(nrows, agg, indx, kout, vout, sorted) ==
    LET keys == SortedIndex(nrows, indx, sorted)
        agg_p == [k \in 0..(nrows - 1) |-> agg[keys[k]]]
        ret == reduce_by_key(keys, nrows, agg_p, kout, vout)
    IN [indx |-> keys, agg_p |-> agg_p, kout |-> ret.kout, vout |-> ret.vout,
        sz |-> ret.sz]

\* sum / static_cast<ValsT>(n); a slot nothing wrote to stays undetermined
Average(sum, n) ==
    IF sum = Uninit \/ n = Uninit THEN Uninit ELSE sum \div n

\* key columns of 1..MaxSRows integer rows, a column to aggregate, the
\* output arrays unwritten, and d_indx sorted when the caller says so
AvgInit ==
    /\ SqlTable({"GDF_INT32"}, FALSE, 1..MaxSRows)
    /\ asc_desc_flags_ = EmptyArr
    /\ vals_ = EmptyArr
    /\ SqlNoCall
    /\ sorted_flag \in BOOLEAN
    /\ stream \in Streams
    /\ d_agg \in [DOMAIN columns_[0] -> 0..AggValMax]
    /\ d_indx = (IF sorted_flag
                 THEN SortedIndex(Count(columns_[0]), EmptyArr, FALSE)
                 ELSE [k \in DOMAIN columns_[0] |-> Unwritten])
    /\ d_agg_p = [k \in DOMAIN columns_[0] |-> Uninit]
    /\ d_kout = [k \in DOMAIN columns_[0] |-> Uninit]
    /\ d_vout = [k \in DOMAIN columns_[0] |-> Uninit]
    /\ d_cout = [k \in DOMAIN columns_[0] |-> Uninit]

\* the call of the count passes (..., sorted, stream): stream lands in the
\* parameter distinct, a non-null stream converting to true
multi_col_group_by_avg_sort ==
    /\ spc = "call"
    /\ LET nrows == Count(columns_[0])
           counted == multi_col_group_by_count_sort(nrows, d_indx, d_kout, d_cout,
                                                    sorted_flag, stream # "NULL")
           summed == multi_col_group_by_sum_sort(nrows, d_agg, counted.indx,
                                                 counted.kout, d_vout, sorted_flag)
       IN /\ d_indx' = summed.indx
          /\ d_agg_p' = summed.agg_p
          /\ d_kout' = summed.kout
          /\ d_cout' = counted.vout
          /\ d_vout' = [k \in 0..(nrows - 1) |->
                          Average(summed.vout[k], counted.vout[k])]
          /\ new_sz' = summed.sz
    /\ sop' = "multi_col_group_by_avg_sort"
    /\ spc' = "done"
    /\ UNCHANGED <<SqlInputs, srow1, srow2, sresult>>
    /\ UNCHANGED <<d_agg, sorted_flag, stream>>
    /\ UNCHANGED notSqlAvg

AvgNext == multi_col_group_by_avg_sort

InitAvg == AvgInit /\ JoinIdle /\ HandleIdle /\ GroupbyIdle /\ AggIdle /\ MedianIdle /\ ViewIdle /\ CapIdle /\ BitIdle

SpecAvg == InitAvg /\ [][AvgNext]_vars

\* the key tuple of a row
KeyTuple(r) == [c \in SqlCols |-> columns_[c][r]]

KeyTuples == {KeyTuple(r) : r \in DOMAIN columns_[0]}

\* lexicographic order of key tuples, first column first
TupleLess(t, u) ==
    \E c \in SqlCols : t[c] < u[c] /\ \A e \in SqlCols : e < c => t[e] = u[e]

\* the rows of the k-th group in ascending key order
GroupRows(k) ==
    {r \in DOMAIN columns_[0] :
        Cardinality({t \in KeyTuples : TupleLess(t, KeyTuple(r))}) = k}

RECURSIVE SumOver(_)
SumOver(rs) ==
    IF rs = {} THEN 0
    ELSE LET r == CHOOSE x \in rs : TRUE IN d_agg[r] + SumOver(rs \ {r})

\* C29: multi_col_group_by_avg_sort returns the number g of distinct key
\* tuples; for each k < g, d_cout[k] is the number of rows of group k and
\* d_vout[k] is the sum of the aggregated values of group k divided by that
\* number, whatever the sorted flag and the stream.
C29_AverageOfGroups ==
    (spc = "done" /\ sop = "multi_col_group_by_avg_sort") =>
        /\ new_sz = Cardinality(KeyTuples)
        /\ \A k \in 0..(new_sz - 1) :
              /\ d_cout[k] = Cardinality(GroupRows(k))
              /\ d_vout[k] = SumOver(GroupRows(k)) \div Cardinality(GroupRows(k))

\* what does hold: the claim on the null stream, and the returned size
AverageOnNullStream == stream = "NULL" => C29_AverageOfGroups

GroupCountReturned ==
    (spc = "done" /\ sop = "multi_col_group_by_avg_sort") =>
        new_sz = Cardinality(KeyTuples)

----------------------------------------------------------------------------
(* The phases of GroupbyHash and inner_join_hash *)

\* one call of either function: a hash join, or a hash group-by
PhasesInit ==
    \/ JoinInit /\ HASH_JOIN /\ GroupbyIdle
    \/ GroupbyInit /\ JoinIdle

PhasesNext ==
    \/ CallInnerJoinHash
    \/ \E i \in 0..(MaxRows - 1) : BuildInsert(i)
    \/ LaunchProbe
    \/ \E j \in 0..(MaxRows - 1) : ProbeStep(j)
    \/ FinishInnerJoinHash
    \/ RejectInput
    \/ LaunchBuild
    \/ \E i \in 0..(MaxGRows - 1) : InsertCAS(i)
    \/ \E i \in 0..(MaxGRows - 1) : InsertUpdate(i)
    \/ BuildSync
    \/ LaunchExtract
    \/ \E s \in 0..(hash_table_size(MaxGRows) - 1) : ExtractSlot(s)
    \/ ExtractSync

InitPhases == PhasesInit /\ HandleIdle /\ AggIdle /\ OthersIdle

SpecPhases == InitPhases /\ [][PhasesNext]_vars

\* every build worker's insert has completed
BuildComplete ==
    /\ \A i \in DOMAIN wpc : wpc[i] = "done"
    /\ inserted = DOMAIN BuildSide

\* C30: in GroupbyHash and inner_join_hash no extraction or probe worker
\* reads the hash table before every build worker's insert has completed,
\* and the host reads the shared write cursor (into out_size, or as the
\* number of pairs of the output) only after every extraction or probe
\* worker has finished.
C30_PhasesOrdered ==
    [][/\ (epc' # epc /\ epc # EmptyArr) =>
              BuildComplete /\ the_map' = the_map
       /\ (ppos' # ppos /\ ppos # EmptyArr) =>
              BuildComplete /\ hash_tbl' = hash_tbl
       /\ (gpc # gpc' /\ gpc' = "returned" /\ gerror' = "cudaSuccess") =>
              /\ \A s \in DOMAIN epc : epc[s] = "done"
              /\ out_size' = global_write_index
       /\ (jpc # jpc' /\ jpc' = "done" /\ jstatus' = "ok") =>
              /\ \A j \in DOMAIN ppos : ppos[j] < 0
              /\ Count(output') = 2 * joined_idx]_vars

C30_Witness ==
    /\ gpc = "returned"
    /\ Count(epc) = hash_table_size(MaxGRows)
    /\ out_size = 2
    /\ BuildComplete

====
